---- MODULE Spec2Model ----
(***************************************************************************)
(* Tabu search heuristic for the Equitable Coloring Problem.               *)
(*                                                                         *)
(* The module models the program of src/src/main.cpp: the instance loader  *)
(* (read_instance, Instance::build_adj), the SolutionManager with its two  *)
(* greedy constructions and its incremental move primitives, the tabu      *)
(* engine run_tabu_search and the descent loop of main.                    *)
(*                                                                         *)
(* Vertices are 0..n-1 and colors 0..k-1 as in the source; -1 is "no       *)
(* color" / "absent".  C++ vectors are functions over 0..len-1, except the *)
(* adjacency lists and conflictingVertices, which are sequences (their     *)
(* order is the order of the source's push_back calls); conflictingIndex   *)
(* holds the 0-based position of the source, so that                       *)
(* conflictingVertices[conflictingIndex[v] + 1] = v in the model.          *)
(***************************************************************************)
EXTENDS Integers, Sequences, FiniteSets, TLC

(***************************************************************************)
(* Bounds of the model.                                                    *)
(***************************************************************************)
\* the inputs of the general family have at most MaxM edge lines
MaxM == 2
\* the largest explicit number of classes a construction is started with
MaxK == 4
\* --max_iter given on the command line
MaxIter == 3
\* --beta given on the command line
Beta == 1
\* --perturbation_limit given on the command line
PerturbationLimit == 1

\* the number of calls of apply_move / apply_swap_safe made on a constructed state
MaxMoves == 1

\* --beta of the runs of run_tabu_search alone
TabuBeta == 2

\* --max_iter of the runs of main on the complete graphs
CompleteMaxIter == 2

\* --max_iter of the runs of run_tabu_search that go past the second poll of the clock
PollMaxIter == 130

(***************************************************************************)
(* Program constants.                                                      *)
(***************************************************************************)
\* TabuConfig::alpha = 0.6, as the fraction AlphaNum / AlphaDen
AlphaNum == 6
AlphaDen == 10
\* TabuConfig::perturbation_strength = 0.16 (main never overwrites it)
StrengthNum == 16
StrengthDen == 100
\* the stop criterion is polled when iter % 128 == 0
PollPeriod == 128
\* int best_delta = 99999999
BestDeltaInit == 99999999
\* color.assign(n, -1), conflictingIndex.assign(n, -1), move_type = -1
NoColor == -1

(***************************************************************************)
(* Helpers on sets and sequences.                                          *)
(***************************************************************************)
MinOf(S) == CHOOSE x \in S : \A y \in S : x <= y

RECURSIVE SeqsUpTo(_, _)
\* all sequences over S of length at most len
SeqsUpTo(S, len) ==
    IF len = 0 THEN {<<>>}
    ELSE LET shorter == SeqsUpTo(S, len - 1)
         IN  shorter \cup {Append(q, x) : q \in {p \in shorter : Len(p) = len - 1}, x \in S}

RECURSIVE SumOver(_, _)
\* sum of f over the finite set D of its arguments
SumOver(f, D) ==
    IF D = {} THEN 0
    ELSE LET x == CHOOSE y \in D : TRUE IN f[x] + SumOver(f, D \ {x})

(***************************************************************************)
(* Input files.  An input is the header n and the edge lines "a b"         *)
(* (1-based).  read_instance filters nothing, so a line may repeat an      *)
(* earlier one or name the same vertex twice.  A line "b a" gives          *)
(* build_adj the same two push_back calls as "a b", so the lines are       *)
(* written with a <= b.                                                    *)
(***************************************************************************)
Line(a, b) == <<a, b>>

\* the general family: every list of at most MaxM lines on one, two or three vertices
GeneralInputs ==
    UNION { { [n |-> n, lines |-> q] :
                q \in SeqsUpTo({e \in (1..n) \X (1..n) : e[1] <= e[2]}, MaxM) } : n \in 1..3 }

\* named instances: the triangle K3 and, on four vertices, one edge, the path P4,
\* the cycle C4 and two disjoint edges
NamedInputs ==
    { [n |-> 3, lines |-> << Line(1, 2), Line(1, 3), Line(2, 3) >>],
      [n |-> 4, lines |-> << Line(3, 4) >>],
      [n |-> 4, lines |-> << Line(1, 2), Line(2, 3), Line(3, 4) >>],
      [n |-> 4, lines |-> << Line(1, 2), Line(2, 3), Line(3, 4), Line(1, 4) >>],
      [n |-> 4, lines |-> << Line(1, 2), Line(3, 4) >>] }

Inputs == GeneralInputs \cup NamedInputs

(***************************************************************************)
(* Instance.                                                               *)
(***************************************************************************)
RECURSIVE build_adj_loop(_, _)
\* the for loop of Instance::build_adj over edges[t..]
build_adj_loop(I, t) ==
    IF t > Len(I.edges) THEN I
    ELSE LET a == I.edges[t][1]
             b == I.edges[t][2]
             adj1 == [I.adj EXCEPT ![a] = Append(@, b)]
             adj2 == [adj1 EXCEPT ![b] = Append(@, a)]
             deg1 == [I.degree EXCEPT ![a] = @ + 1]
             deg2 == [deg1 EXCEPT ![b] = @ + 1]
             md1  == IF deg2[a] > I.max_degree THEN deg2[a] ELSE I.max_degree
             md2  == IF deg2[b] > md1 THEN deg2[b] ELSE md1
         IN  build_adj_loop([I EXCEPT !.adj = adj2, !.degree = deg2, !.max_degree = md2], t + 1)

build_adj(I) ==
    build_adj_loop([I EXCEPT !.adj = [v \in 0..(I.n - 1) |-> <<>>],
                             !.degree = [v \in 0..(I.n - 1) |-> 0]], 1)

\* a default-constructed Instance
EmptyInstance == [n |-> 0, edges |-> <<>>, adj |-> <<>>, degree |-> <<>>, max_degree |-> 0]

read_instance(inp) ==
    build_adj([EmptyInstance EXCEPT
                 !.n = inp.n,
                 !.edges = [t \in 1..Len(inp.lines) |-> <<inp.lines[t][1] - 1, inp.lines[t][2] - 1>>]])

(***************************************************************************)
(* The state of the program.                                               *)
(***************************************************************************)
VARIABLES
    input,             \* the input file
    config,            \* TabuConfig as main fills it from the arguments
    time_up,           \* what StopCriterion::is_time_up() answers now
    inst,              \* the Instance
    pc,                \* where main is
    currentS,          \* the SolutionManager being built or searched (currentS / nextS)
    uncolored,         \* vertices a construction has still to insert
    current_r,         \* the construction's counter of big classes
    bestFeasibleS,     \* main's bestFeasibleS
    best_k_found,      \* main's best_k_found
    tabu_matrix,       \* currentS.tabu_matrix
    iter,              \* run_tabu_search: iter
    no_improve_iter,   \* run_tabu_search: no_improve_iter
    best_obj_found,    \* run_tabu_search: best_obj_found
    result,            \* the TabuResult of the last engine call
    last,              \* what the last step of the engine did (ghost)
    total_iterations   \* main's total_iterations

vars == << input, config, time_up, inst, pc, currentS, uncolored, current_r,
           bestFeasibleS, best_k_found, tabu_matrix, iter, no_improve_iter,
           best_obj_found, result, last, total_iterations >>

V == 0..(inst.n - 1)

(***************************************************************************)
(* SolutionManager.                                                        *)
(***************************************************************************)
\* a default-constructed SolutionManager
EmptySolution ==
    [k |-> 0, color |-> <<>>, classSize |-> <<>>, conflicts |-> <<>>,
     conflictingVertices |-> <<>>, conflictingIndex |-> <<>>, obj |-> 0,
     floor_size |-> 0, big_size |-> 0]

\* an init that starts from n classes instead of max_degree + 1
init_n_classes(I, K) ==
    LET k == IF K = -1 THEN I.n ELSE K
    IN  [k |-> k,
         color |-> [v \in 0..(I.n - 1) |-> NoColor],
         classSize |-> [c \in 0..(k - 1) |-> 0],
         conflicts |-> [v \in 0..(I.n - 1) |-> 0],
         conflictingVertices |-> <<>>,
         conflictingIndex |-> [v \in 0..(I.n - 1) |-> -1],
         obj |-> 0,
         floor_size |-> I.n \div k,
         big_size |-> (I.n \div k) + 1]

\* SolutionManager::init(Iptr, K)
init(I, K) ==
    LET k == IF K = -1 THEN I.max_degree + 1 ELSE K
    IN  [k |-> k,
         color |-> [v \in 0..(I.n - 1) |-> NoColor],
         classSize |-> [c \in 0..(k - 1) |-> 0],
         conflicts |-> [v \in 0..(I.n - 1) |-> 0],
         conflictingVertices |-> <<>>,
         conflictingIndex |-> [v \in 0..(I.n - 1) |-> -1],
         obj |-> 0,
         floor_size |-> I.n \div k,
         big_size |-> (I.n \div k) + 1]

\* n - k * floor(n / k): the target number of big classes (max_r in the source)
max_r(S) == inst.n - S.k * (inst.n \div S.k)

\* the "if (conflicts[x] == 1 && conflictingIndex[x] == -1)" append of the constructions
append_if_first(S, x) ==
    IF S.conflicts[x] = 1 /\ S.conflictingIndex[x] = -1
    THEN [S EXCEPT !.conflictingIndex[x] = Len(S.conflictingVertices),
                   !.conflictingVertices = Append(@, x)]
    ELSE S

RECURSIVE insert_conflicts(_, _, _, _)
\* the incremental conflict update of a construction after color[v] = chosenColor:
\* the loop over adj[v][i..]
insert_conflicts(S, v, chosenColor, i) ==
    IF i > Len(inst.adj[v]) THEN S
    ELSE LET u == inst.adj[v][i]
         IN  IF S.color[u] # NoColor /\ S.color[u] = chosenColor
             THEN LET S1 == [S EXCEPT !.obj = @ + 1, !.conflicts[v] = @ + 1]
                      S2 == [S1 EXCEPT !.conflicts[u] = @ + 1]
                      S3 == append_if_first(S2, v)
                      S4 == append_if_first(S3, u)
                  IN  insert_conflicts(S4, v, chosenColor, i + 1)
             ELSE insert_conflicts(S, v, chosenColor, i + 1)

\* a cap that lets every class take floor(n/k)+1 vertices, however many already have
cap_M_unlimited(S, cur_r) == (inst.n \div S.k) + 1

\* M: the size cap of the current insertion step
cap_M(S, cur_r) == IF cur_r < max_r(S) THEN (inst.n \div S.k) + 1 ELSE inst.n \div S.k

\* a candidate set that admits the classes already at the cap
candidate_I_at_cap(S, cur_r) == {c \in 0..(S.k - 1) : S.classSize[c] <= cap_M(S, cur_r)}

\* I = {c : classSize[c] <= M - 1}
candidate_I(S, cur_r) == {c \in 0..(S.k - 1) : S.classSize[c] <= cap_M(S, cur_r) - 1}

\* the classes of I holding no colored neighbor of v
conflict_free(S, v, cur_r) ==
    {c \in candidate_I(S, cur_r) : \A i \in 1..Len(inst.adj[v]) : S.color[inst.adj[v][i]] # c}

\* the fallback of construct_greedy_initial when I is empty: the first smallest class
smallest_class(S) ==
    MinOf({c \in 0..(S.k - 1) : \A d \in 0..(S.k - 1) : S.classSize[c] <= S.classSize[d]})

\* the colors an insertion step may choose for v; fallback is the color of the empty-I branch
chosen_colors(S, v, cur_r, fallback) ==
    IF conflict_free(S, v, cur_r) # {} THEN {MinOf(conflict_free(S, v, cur_r))}
    ELSE IF candidate_I(S, cur_r) = {} THEN {fallback}
    ELSE candidate_I(S, cur_r)

\* the assignment part of an insertion step
assign_color(S, v, c) ==
    insert_conflicts([S EXCEPT !.color[v] = c, !.classSize[c] = @ + 1], v, c, 1)

\* a counter of big classes that is never incremented
bump_r_never(S, c, cur_r) == cur_r

\* current_r after the insertion made class c grow
bump_r(S, c, cur_r) == IF S.classSize[c] = (inst.n \div S.k) + 1 THEN cur_r + 1 ELSE cur_r

\* a removal that leaves conflictingIndex[x] at its old position
update_conflict_status_keeps_index(S, x) ==
    IF S.conflicts[x] > 0
    THEN IF S.conflictingIndex[x] = -1
         THEN [S EXCEPT !.conflictingIndex[x] = Len(S.conflictingVertices),
                        !.conflictingVertices = Append(@, x)]
         ELSE S
    ELSE IF S.conflictingIndex[x] # -1
         THEN LET idx     == S.conflictingIndex[x]
                  lastVal == S.conflictingVertices[Len(S.conflictingVertices)]
                  list1   == [S.conflictingVertices EXCEPT ![idx + 1] = lastVal]
              IN  [S EXCEPT !.conflictingVertices = SubSeq(list1, 1, Len(list1) - 1),
                            !.conflictingIndex[lastVal] = idx]
         ELSE S

\* SolutionManager::update_conflict_status(x)
update_conflict_status(S, x) ==
    IF S.conflicts[x] > 0
    THEN IF S.conflictingIndex[x] = -1
         THEN [S EXCEPT !.conflictingIndex[x] = Len(S.conflictingVertices),
                        !.conflictingVertices = Append(@, x)]
         ELSE S
    ELSE IF S.conflictingIndex[x] # -1
         THEN LET idx     == S.conflictingIndex[x]
                  lastVal == S.conflictingVertices[Len(S.conflictingVertices)]
                  list1   == [S.conflictingVertices EXCEPT ![idx + 1] = lastVal]
                  index1  == [S.conflictingIndex EXCEPT ![lastVal] = idx]
              IN  [S EXCEPT !.conflictingVertices = SubSeq(list1, 1, Len(list1) - 1),
                            !.conflictingIndex = [index1 EXCEPT ![x] = -1]]
         ELSE S

RECURSIVE remove_old_conflicts_one_sided(_, _, _, _)
\* a first loop that decrements conflicts[v] and obj but not conflicts[u]
remove_old_conflicts_one_sided(S, v, old_c, i) ==
    IF i > Len(inst.adj[v]) THEN S
    ELSE LET u == inst.adj[v][i]
         IN  IF S.color[u] = old_c
             THEN LET S1 == update_conflict_status(
                                [S EXCEPT !.obj = @ - 1, !.conflicts[v] = @ - 1], v)
                  IN  remove_old_conflicts_one_sided(S1, v, old_c, i + 1)
             ELSE remove_old_conflicts_one_sided(S, v, old_c, i + 1)

RECURSIVE remove_old_conflicts(_, _, _, _)
\* apply_move, first loop over adj[v][i..]: the conflicts v had in old_c
remove_old_conflicts(S, v, old_c, i) ==
    IF i > Len(inst.adj[v]) THEN S
    ELSE LET u == inst.adj[v][i]
         IN  IF S.color[u] = old_c
             THEN LET S1 == update_conflict_status(
                                [S EXCEPT !.obj = @ - 1, !.conflicts[v] = @ - 1], v)
                      S2 == update_conflict_status([S1 EXCEPT !.conflicts[u] = @ - 1], u)
                  IN  remove_old_conflicts(S2, v, old_c, i + 1)
             ELSE remove_old_conflicts(S, v, old_c, i + 1)

\* a second loop that counts none of the conflicts v gets in new_c
add_new_conflicts_none(S, v, new_c, i) == S

RECURSIVE add_new_conflicts(_, _, _, _)
\* apply_move, second loop over adj[v][i..]: the conflicts v gets in new_c
add_new_conflicts(S, v, new_c, i) ==
    IF i > Len(inst.adj[v]) THEN S
    ELSE LET u == inst.adj[v][i]
         IN  IF S.color[u] = new_c
             THEN LET S1 == update_conflict_status(
                                [S EXCEPT !.obj = @ + 1, !.conflicts[v] = @ + 1], v)
                      S2 == update_conflict_status([S1 EXCEPT !.conflicts[u] = @ + 1], u)
                  IN  add_new_conflicts(S2, v, new_c, i + 1)
             ELSE add_new_conflicts(S, v, new_c, i + 1)

\* a move that does not decrement the size of the class it leaves
apply_move_keeps_old_size(S, v, new_c) ==
    LET old_c == S.color[v]
        S0 == [S EXCEPT !.color[v] = new_c]
        S2 == [S0 EXCEPT !.classSize[new_c] = @ + 1]
    IN  add_new_conflicts(remove_old_conflicts(S2, v, old_c, 1), v, new_c, 1)

\* SolutionManager::apply_move(v, new_c)
apply_move(S, v, new_c) ==
    LET old_c == S.color[v]
        S0 == [S EXCEPT !.color[v] = new_c]
        S1 == [S0 EXCEPT !.classSize[old_c] = @ - 1]
        S2 == [S1 EXCEPT !.classSize[new_c] = @ + 1]
    IN  add_new_conflicts(remove_old_conflicts(S2, v, old_c, 1), v, new_c, 1)

\* a swap that moves v and leaves u where it is
apply_swap_safe_half(S, v, u) == apply_move(S, v, S.color[u])

\* SolutionManager::apply_swap_safe(v, u)
apply_swap_safe(S, v, u) ==
    LET c_v == S.color[v]
        c_u == S.color[u]
    IN  apply_move(apply_move(S, v, c_u), u, c_v)

RECURSIVE move_delta_loop(_, _, _, _, _)
\* get_move_delta: the loop over adj[v][i..]
move_delta_loop(S, v, old_c, new_c, i) ==
    IF i > Len(inst.adj[v]) THEN 0
    ELSE LET c_u == S.color[inst.adj[v][i]]
             d   == IF c_u = NoColor THEN 0
                    ELSE IF c_u = old_c THEN -1
                    ELSE IF c_u = new_c THEN 1
                    ELSE 0
         IN  d + move_delta_loop(S, v, old_c, new_c, i + 1)

\* a delta that counts the neighbors gained in new_c and none of those left in old_c
get_move_delta_gain_only(S, v, old_c, new_c) ==
    Cardinality({i \in 1..Len(inst.adj[v]) : S.color[inst.adj[v][i]] = new_c})

\* SolutionManager::get_move_delta(v, old_c, new_c)
get_move_delta(S, v, old_c, new_c) == move_delta_loop(S, v, old_c, new_c, 1)

RECURSIVE swap_delta_loop(_, _, _, _, _, _)
\* get_swap_delta: one of its two loops, over adj[x][i..], skipping the partner
swap_delta_loop(S, x, partner, c_from, c_to, i) ==
    IF i > Len(inst.adj[x]) THEN 0
    ELSE LET w   == inst.adj[x][i]
             c_w == S.color[w]
             d   == IF w = partner THEN 0
                    ELSE IF c_w = c_from THEN -1
                    ELSE IF c_w = c_to THEN 1
                    ELSE 0
         IN  d + swap_delta_loop(S, x, partner, c_from, c_to, i + 1)

\* a swap delta that is the sum of the two move deltas, the partner not skipped
get_swap_delta_with_partner(S, v, u) ==
    get_move_delta(S, v, S.color[v], S.color[u]) + get_move_delta(S, u, S.color[u], S.color[v])

\* SolutionManager::get_swap_delta(v, u)
get_swap_delta(S, v, u) ==
    LET c_v == S.color[v]
        c_u == S.color[u]
    IN  IF c_v = c_u THEN 0
        ELSE swap_delta_loop(S, v, u, c_v, c_u, 1) + swap_delta_loop(S, u, v, c_u, c_v, 1)

\* SolutionManager::recompute_objective_slow()
recompute_objective_slow(S) ==
    LET same == [v \in V |->
                    Cardinality({i \in 1..Len(inst.adj[v]) : S.color[v] = S.color[inst.adj[v][i]]})]
    IN  SumOver(same, V) \div 2

\* SolutionManager::init_tabu()
init_tabu(S) == [v \in V |-> [c \in 0..(S.k - 1) |-> 0]]

(***************************************************************************)
(* construct_greedy_from_previous, up to its insertion loop.               *)
(***************************************************************************)
\* the outcomes of std::shuffle on perm = 0..prev_k-1
Perms(prev_k) ==
    {p \in [1..prev_k -> 0..(prev_k - 1)] : \A i, j \in 1..prev_k : p[i] = p[j] => i = j}

\* a color map that keeps the old indices and sends the last color to index 0
color_map_of_last_to_zero(perm, prev_k) ==
    [c \in 0..(prev_k - 1) |->
        IF c = perm[prev_k] THEN -1 ELSE IF c = prev_k - 1 THEN 0 ELSE c]

\* a color map that sends every surviving color to index 0
color_map_of_all_zero(perm, prev_k) ==
    [c \in 0..(prev_k - 1) |-> IF c = perm[prev_k] THEN -1 ELSE 0]

\* color_map: perm[0..prev_k-2] -> 0..prev_k-2, the removed color stays -1
color_map_of(perm, prev_k) ==
    [c \in 0..(prev_k - 1) |->
        IF \E i \in 1..(prev_k - 1) : perm[i] = c
        THEN (CHOOSE i \in 1..(prev_k - 1) : perm[i] = c) - 1
        ELSE -1]

RECURSIVE transfer_colors(_, _, _, _, _)
\* step 3, the loop over v..n-1: surviving vertices are remapped, the others stay uncolored
transfer_colors(S, prevSol, color_map, removed_color, v) ==
    IF v >= inst.n THEN S
    ELSE LET old_c == prevSol.color[v]
         IN  IF old_c = removed_color
             THEN transfer_colors(S, prevSol, color_map, removed_color, v + 1)
             ELSE LET new_c == color_map[old_c]
                      S1 == [S EXCEPT !.color[v] = new_c, !.classSize[new_c] = @ + 1]
                  IN  transfer_colors(S1, prevSol, color_map, removed_color, v + 1)

\* the edges inside the removed class counted from v: neighbors u > v of the removed color
removed_edges_from(prevSol, removed_color, v) ==
    Cardinality({i \in 1..Len(inst.adj[v]) :
                    inst.adj[v][i] > v /\ prevSol.color[inst.adj[v][i]] = removed_color})

RECURSIVE inherit_conflicts(_, _, _, _)
\* step 4, the loop over v..n-1: conflicts and the conflict list are taken from prevSol
inherit_conflicts(S, prevSol, removed_color, v) ==
    IF v >= inst.n THEN S
    ELSE IF prevSol.color[v] = removed_color
         THEN LET S1 == IF prevSol.conflicts[v] > 0
                        THEN [S EXCEPT !.obj = @ - removed_edges_from(prevSol, removed_color, v)]
                        ELSE S
                  S2 == [S1 EXCEPT !.conflicts[v] = 0, !.conflictingIndex[v] = -1]
              IN  inherit_conflicts(S2, prevSol, removed_color, v + 1)
         ELSE LET S1 == [S EXCEPT !.conflicts[v] = prevSol.conflicts[v]]
                  S2 == IF S1.conflicts[v] > 0
                        THEN [S1 EXCEPT !.conflictingIndex[v] = Len(S1.conflictingVertices),
                                        !.conflictingVertices = Append(@, v)]
                        ELSE [S1 EXCEPT !.conflictingIndex[v] = -1]
              IN  inherit_conflicts(S2, prevSol, removed_color, v + 1)

\* the state of construct_greedy_from_previous when its insertion loop starts;
\* S is the freshly initialised nextS
from_previous_start(S, prevSol, perm) ==
    LET prev_k        == prevSol.k
        removed_color == perm[prev_k]
        S1 == transfer_colors(S, prevSol, color_map_of(perm, prev_k), removed_color, 0)
        S2 == [S1 EXCEPT !.obj = prevSol.obj]
    IN  inherit_conflicts(S2, prevSol, removed_color, 0)

\* current_r recounted from classSize
recount_r(S) == Cardinality({c \in 0..(S.k - 1) : S.classSize[c] >= (inst.n \div S.k) + 1})

(***************************************************************************)
(* run_tabu_search: the neighborhood of one iteration.                     *)
(***************************************************************************)
ConflictingSet == {currentS.conflictingVertices[i] : i \in 1..Len(currentS.conflictingVertices)}

\* while (iter < config.max_iter && obj > 0)
LoopCondition == iter < config.max_iter /\ currentS.obj > 0

\* a poll of the stop criterion at every pass of the loop
StopPolled_every_iteration == time_up

\* if (iter % 128 == 0 && stop.is_time_up())
StopPolled == iter % PollPeriod = 0 /\ time_up

\* if (no_improve_iter >= config.perturbation_limit && config.perturbation_strength > 0)
PerturbationDue == no_improve_iter >= config.perturbation_limit /\ StrengthNum > 0

\* bool can_do_transfer = (n % k != 0)
can_do_transfer == inst.n % currentS.k # 0

\* a transfer v -> j passes the tabu / aspiration filter
transfer_admitted(v, j, delta) ==
    LET is_tabu    == tabu_matrix[v][j] > iter
        aspiration == currentS.obj + delta < best_obj_found
    IN  ~is_tabu \/ (aspiration /\ config.aspiration # 0)

\* a swap filter that reads only the entry of v, not the entry of u
swap_admitted_one_entry(v, u, delta) ==
    LET c_u        == currentS.color[u]
        is_tabu    == tabu_matrix[v][c_u] > iter
        aspiration == currentS.obj + delta < best_obj_found
    IN  ~is_tabu \/ aspiration

\* a swap v <-> u passes the tabu / aspiration filter
swap_admitted(v, u, delta) ==
    LET c_v        == currentS.color[v]
        c_u        == currentS.color[u]
        is_tabu    == tabu_matrix[v][c_u] > iter \/ tabu_matrix[u][c_v] > iter
        aspiration == currentS.obj + delta < best_obj_found
    IN  ~is_tabu \/ aspiration

\* an enumeration that tries every conflicting vertex in every other class, whatever
\* n % k and the class sizes are
TransfersEvaluated_any_class ==
    {[type |-> 0, v |-> v, target |-> j,
      delta |-> get_move_delta(currentS, v, currentS.color[v], j)] :
        v \in ConflictingSet, j \in {c \in 0..(currentS.k - 1) : \E x \in V : currentS.color[x] # c}}

\* the transfers the enumeration evaluates
TransfersEvaluated ==
    IF can_do_transfer
    THEN {[type |-> 0, v |-> v, target |-> j,
           delta |-> get_move_delta(currentS, v, currentS.color[v], j)] :
             v \in {x \in ConflictingSet : currentS.classSize[currentS.color[x]] = currentS.big_size},
             j \in {c \in 0..(currentS.k - 1) : currentS.classSize[c] = currentS.floor_size}}
    ELSE {}

\* an enumeration without the rule "if u is conflicting too, only when c_u < c_v"
SwapsEvaluated_both_orders ==
    {[type |-> 1, v |-> p[1], target |-> p[2], delta |-> get_swap_delta(currentS, p[1], p[2])] :
       p \in {q \in ConflictingSet \X V :
                /\ q[1] # q[2]
                /\ currentS.color[q[1]] # currentS.color[q[2]]}}

\* the swaps the enumeration evaluates
SwapsEvaluated ==
    {[type |-> 1, v |-> p[1], target |-> p[2], delta |-> get_swap_delta(currentS, p[1], p[2])] :
       p \in {q \in ConflictingSet \X V :
                /\ q[1] # q[2]
                /\ currentS.color[q[1]] # currentS.color[q[2]]
                /\ ~(currentS.conflicts[q[2]] > 0 /\ currentS.color[q[2]] > currentS.color[q[1]])}}

\* the evaluated candidates that pass the filter
Admitted ==
    {m \in TransfersEvaluated : transfer_admitted(m.v, m.target, m.delta)}
      \cup {m \in SwapsEvaluated : swap_admitted(m.v, m.target, m.delta)}

\* best_delta when the enumeration ends
best_delta == MinOf({BestDeltaInit} \cup {m.delta : m \in Admitted})

\* candidates when the enumeration ends
candidates == {m \in Admitted : m.delta = best_delta}

RECURSIVE transfers_of(_, _)
\* for (j = from; j < k; ++j) of the transfer enumeration, for the vertex v of W+
transfers_of(v, j) ==
    IF j >= currentS.k THEN <<>>
    ELSE (IF currentS.classSize[j] = currentS.floor_size
          THEN << [type |-> 0, v |-> v, target |-> j,
                   delta |-> get_move_delta(currentS, v, currentS.color[v], j)] >>
          ELSE <<>>) \o transfers_of(v, j + 1)

RECURSIVE transfer_scan(_)
\* for (int v : conflictingVertices) of the transfer enumeration, from position i on
transfer_scan(i) ==
    IF i > Len(currentS.conflictingVertices) THEN <<>>
    ELSE LET v == currentS.conflictingVertices[i]
         IN  (IF currentS.classSize[currentS.color[v]] = currentS.big_size
              THEN transfers_of(v, 0) ELSE <<>>) \o transfer_scan(i + 1)

RECURSIVE swaps_of(_, _)
\* for (u = from; u < n; ++u) of the swap enumeration, for the conflicting vertex v
swaps_of(v, u) ==
    IF u >= inst.n THEN <<>>
    ELSE (IF \/ v = u
             \/ currentS.color[v] = currentS.color[u]
             \/ (currentS.conflicts[u] > 0 /\ currentS.color[u] > currentS.color[v])
          THEN <<>>
          ELSE << [type |-> 1, v |-> v, target |-> u, delta |-> get_swap_delta(currentS, v, u)] >>)
         \o swaps_of(v, u + 1)

RECURSIVE swap_scan(_)
\* for (int v : conflictingVertices) of the swap enumeration, from position i on
swap_scan(i) ==
    IF i > Len(currentS.conflictingVertices) THEN <<>>
    ELSE swaps_of(currentS.conflictingVertices[i], 0) \o swap_scan(i + 1)

\* the candidates in the order the pass evaluates them: the transfers, then the swaps
evaluation_order == (IF can_do_transfer THEN transfer_scan(1) ELSE <<>>) \o swap_scan(1)

\* the filter of the candidate m
admitted(m) ==
    IF m.type = 0 THEN transfer_admitted(m.v, m.target, m.delta)
    ELSE swap_admitted(m.v, m.target, m.delta)

\* a strictly better delta is appended to the pool without clearing it
scan_step_keeps_pool(st, m) ==
    IF ~admitted(m) THEN st
    ELSE IF m.delta < st.best_delta THEN [best_delta |-> m.delta, pool |-> Append(st.pool, m)]
    ELSE IF m.delta = st.best_delta THEN [st EXCEPT !.pool = Append(@, m)]
    ELSE st

\* what the evaluation of m does to best_delta and to the vector candidates
scan_step(st, m) ==
    IF ~admitted(m) THEN st
    ELSE IF m.delta < st.best_delta THEN [best_delta |-> m.delta, pool |-> << m >>]
    ELSE IF m.delta = st.best_delta THEN [st EXCEPT !.pool = Append(@, m)]
    ELSE st

RECURSIVE scan(_, _, _)
\* best_delta and candidates after the evaluation of q[i..]
scan(st, q, i) == IF i > Len(q) THEN st ELSE scan(scan_step(st, q[i]), q, i + 1)

\* best_delta and candidates when the two enumerations of the pass have run
scanned == scan([best_delta |-> BestDeltaInit, pool |-> <<>>], evaluation_order, 1)

\* tenure = (int)(alpha * |C(s)|) + draw, read before the move is applied
tenure_of(draw) == (AlphaNum * Len(currentS.conflictingVertices)) \div AlphaDen + draw

\* the state after the chosen candidate is applied
apply_chosen(m) ==
    IF m.type = 0 THEN apply_move(currentS, m.v, m.target)
    ELSE apply_swap_safe(currentS, m.v, m.target)

\* tabu entries written for the color the vertex arrives in, not the one it leaves
write_tabu_destination(m, tenure) ==
    IF m.type = 0
    THEN [tabu_matrix EXCEPT ![m.v][m.target] = iter + tenure]
    ELSE LET T1 == [tabu_matrix EXCEPT ![m.v][currentS.color[m.target]] = iter + tenure]
         IN  [T1 EXCEPT ![m.target][currentS.color[m.v]] = iter + tenure]

\* the tabu entries written after the chosen candidate is applied
write_tabu(m, tenure) ==
    IF m.type = 0
    THEN [tabu_matrix EXCEPT ![m.v][currentS.color[m.v]] = iter + tenure]
    ELSE LET T1 == [tabu_matrix EXCEPT ![m.v][currentS.color[m.v]] = iter + tenure]
         IN  [T1 EXCEPT ![m.target][currentS.color[m.target]] = iter + tenure]

\* the number of passes of "for (p = 0; p < n * perturbation_strength; ++p)"
perturbation_draws == (inst.n * StrengthNum + StrengthDen - 1) \div StrengthDen

\* one pass of the perturbation loop with the draws v1, v2
perturb_once(S, v1, v2) ==
    IF v1 # v2 /\ S.color[v1] # S.color[v2] THEN apply_swap_safe(S, v1, v2) ELSE S

RECURSIVE perturbed(_, _)
\* the states the perturbation loop can end in after p more passes
perturbed(S, p) ==
    IF p = 0 THEN {S}
    ELSE UNION { perturbed(perturb_once(S, v1, v2), p - 1) : v1 \in V, v2 \in V }

\* a result that reports solved whatever the best objective is
final_result_always_solved == [solved |-> TRUE, iterations |-> iter, final_obj |-> best_obj_found]

\* result as the end of run_tabu_search fills it
final_result == [solved |-> (best_obj_found = 0), iterations |-> iter, final_obj |-> best_obj_found]

(***************************************************************************)
(* The program: main, its descent loop, and the steps of the engine.       *)
(***************************************************************************)
\* the TabuConfig values main can be started with; K is the second argument of the
\* SolutionManager constructor, which main sets to -1 (use max_degree + 1)
Configs ==
    [max_iter : {MaxIter}, beta : {Beta}, perturbation_limit : {0, PerturbationLimit},
     aspiration : {0, 1}, K : {-1}]

\* the same with the initial state built for an explicit number of classes
ConfigsAnyK ==
    [max_iter : {MaxIter}, beta : {Beta}, perturbation_limit : {PerturbationLimit},
     aspiration : {1}, K : 1..MaxK]

NoResult == [solved |-> FALSE, iterations |-> 0, final_obj |-> 0]
NoStep == [kind |-> "none"]

InitFrom(inputs, configs) ==
    /\ input \in inputs
    /\ config \in configs
    /\ time_up = FALSE
    /\ inst = EmptyInstance
    /\ pc = "read"
    /\ currentS = EmptySolution
    /\ uncolored = {}
    /\ current_r = 0
    /\ bestFeasibleS = EmptySolution
    /\ best_k_found = 0
    /\ tabu_matrix = <<>>
    /\ iter = 0
    /\ no_improve_iter = 0
    /\ best_obj_found = 0
    /\ result = NoResult
    /\ last = NoStep
    /\ total_iterations = 0

InitWith(configs) == InitFrom(Inputs, configs)

Init == InitWith(Configs)

\* the clock is about to be read: at the head of the descent loop, or by the poll of the engine
ClockRead == pc = "loop" \/ (pc = "search" /\ LoopCondition /\ iter % PollPeriod = 0)

\* the wall clock passes the time limit; from then on is_time_up() answers true.
\* The program sees the clock only where it reads it, so an expiry at any earlier
\* moment is the expiry just before the next read.
ClockExpires ==
    /\ ~time_up
    /\ ClockRead
    /\ time_up' = TRUE
    /\ UNCHANGED << input, config, inst, pc, currentS, uncolored, current_r, bestFeasibleS,
                    best_k_found, tabu_matrix, iter, no_improve_iter, best_obj_found,
                    result, last, total_iterations >>

\* const Instance inst = read_instance(args.input_file)
ReadInstance ==
    /\ pc = "read"
    /\ inst' = read_instance(input)
    /\ pc' = "construct"
    /\ UNCHANGED << input, config, time_up, currentS, uncolored, current_r, bestFeasibleS,
                    best_k_found, tabu_matrix, iter, no_improve_iter, best_obj_found,
                    result, last, total_iterations >>

\* SolutionManager currentS(inst, -1), and construct_greedy_initial up to its insertion loop
StartGreedyInitial ==
    /\ pc = "construct"
    /\ currentS' = init(inst, config.K)
    /\ uncolored' = V
    /\ current_r' = 0
    /\ pc' = "greedy_initial"
    /\ UNCHANGED << input, config, time_up, inst, bestFeasibleS, best_k_found, tabu_matrix,
                    iter, no_improve_iter, best_obj_found, result, last, total_iterations >>

\* one pass of the insertion loop of construct_greedy_initial
GreedyInitialInsert ==
    /\ pc = "greedy_initial"
    /\ \E v \in uncolored :
         \E c \in chosen_colors(currentS, v, current_r, smallest_class(currentS)) :
            /\ currentS' = assign_color(currentS, v, c)
            /\ current_r' = bump_r(currentS', c, current_r)
            /\ uncolored' = uncolored \ {v}
    /\ UNCHANGED << input, config, time_up, inst, pc, bestFeasibleS, best_k_found, tabu_matrix,
                    iter, no_improve_iter, best_obj_found, result, last, total_iterations >>

\* construct_greedy_initial returns; bestFeasibleS = currentS; best_k_found = currentS.k
FinishGreedyInitial ==
    /\ pc = "greedy_initial"
    /\ uncolored = {}
    /\ bestFeasibleS' = currentS
    /\ best_k_found' = currentS.k
    /\ total_iterations' = 0
    /\ pc' = "loop"
    /\ UNCHANGED << input, config, time_up, inst, currentS, uncolored, current_r, tabu_matrix,
                    iter, no_improve_iter, best_obj_found, result, last >>

\* while (!globalStop.is_time_up()) fails: the descent ends
DescentTimeUp ==
    /\ pc = "loop"
    /\ time_up
    /\ pc' = "done"
    /\ UNCHANGED << input, config, time_up, inst, currentS, uncolored, current_r, bestFeasibleS,
                    best_k_found, tabu_matrix, iter, no_improve_iter, best_obj_found,
                    result, last, total_iterations >>

\* run_tabu_search without the early return on obj == 0: the table and the counters are
\* set up and the loop is entered
TabuEntrySolved_enters_loop ==
    /\ pc = "loop"
    /\ ~time_up
    /\ currentS.obj = 0
    /\ result' = [solved |-> FALSE, iterations |-> 0, final_obj |-> currentS.obj]
    /\ tabu_matrix' = init_tabu(currentS)
    /\ best_obj_found' = currentS.obj
    /\ iter' = 0
    /\ no_improve_iter' = 0
    /\ last' = [kind |-> "entry"]
    /\ pc' = "search"
    /\ UNCHANGED << input, config, time_up, inst, currentS, uncolored, current_r, bestFeasibleS,
                    best_k_found, total_iterations >>

\* run_tabu_search is called and finds obj == 0 at entry
TabuEntrySolved ==
    /\ pc = "loop"
    /\ ~time_up
    /\ currentS.obj = 0
    /\ result' = [solved |-> TRUE, iterations |-> 0, final_obj |-> currentS.obj]
    /\ last' = [kind |-> "entry_solved"]
    /\ pc' = "returned"
    /\ UNCHANGED << input, config, time_up, inst, currentS, uncolored, current_r, bestFeasibleS,
                    best_k_found, tabu_matrix, iter, no_improve_iter, best_obj_found,
                    total_iterations >>

\* run_tabu_search is called with obj > 0: the table and the counters are set up
TabuEntry ==
    /\ pc = "loop"
    /\ ~time_up
    /\ currentS.obj # 0
    /\ result' = [solved |-> FALSE, iterations |-> 0, final_obj |-> currentS.obj]
    /\ tabu_matrix' = init_tabu(currentS)
    /\ best_obj_found' = currentS.obj
    /\ iter' = 0
    /\ no_improve_iter' = 0
    /\ last' = [kind |-> "entry"]
    /\ pc' = "search"
    /\ UNCHANGED << input, config, time_up, inst, currentS, uncolored, current_r, bestFeasibleS,
                    best_k_found, total_iterations >>

\* the loop condition fails: the result is filled and returned
TabuLoopExit ==
    /\ pc = "search"
    /\ ~LoopCondition
    /\ result' = final_result
    /\ last' = [kind |-> "exit"]
    /\ pc' = "returned"
    /\ UNCHANGED << input, config, time_up, inst, currentS, uncolored, current_r, bestFeasibleS,
                    best_k_found, tabu_matrix, iter, no_improve_iter, best_obj_found,
                    total_iterations >>

\* the stop criterion fires at a poll: return result as it was set at entry
TabuTimeout ==
    /\ pc = "search"
    /\ LoopCondition
    /\ StopPolled
    /\ last' = [kind |-> "timeout"]
    /\ pc' = "returned"
    /\ UNCHANGED << input, config, time_up, inst, currentS, uncolored, current_r, bestFeasibleS,
                    best_k_found, tabu_matrix, iter, no_improve_iter, best_obj_found, result,
                    total_iterations >>

\* a perturbation pass that does not count as an iteration
TabuPerturb_keeps_iter ==
    /\ pc = "search"
    /\ LoopCondition
    /\ ~StopPolled
    /\ PerturbationDue
    /\ currentS' \in perturbed(currentS, perturbation_draws)
    /\ no_improve_iter' = 0
    /\ tabu_matrix' = init_tabu(currentS)
    /\ last' = [kind |-> "perturb"]
    /\ UNCHANGED << input, config, time_up, inst, pc, uncolored, current_r, bestFeasibleS,
                    best_k_found, best_obj_found, result, total_iterations, iter >>

\* a perturbation pass that leaves the tabu table as the moves wrote it
TabuPerturb_keeps_tabu ==
    /\ pc = "search"
    /\ LoopCondition
    /\ ~StopPolled
    /\ PerturbationDue
    /\ currentS' \in perturbed(currentS, perturbation_draws)
    /\ no_improve_iter' = 0
    /\ iter' = iter + 1
    /\ last' = [kind |-> "perturb"]
    /\ UNCHANGED << input, config, time_up, inst, pc, uncolored, current_r, bestFeasibleS,
                    best_k_found, best_obj_found, result, total_iterations, tabu_matrix >>

\* a perturbation pass of the loop
TabuPerturb ==
    /\ pc = "search"
    /\ LoopCondition
    /\ ~StopPolled
    /\ PerturbationDue
    /\ currentS' \in perturbed(currentS, perturbation_draws)
    /\ no_improve_iter' = 0
    /\ iter' = iter + 1
    /\ tabu_matrix' = init_tabu(currentS)
    /\ last' = [kind |-> "perturb"]
    /\ UNCHANGED << input, config, time_up, inst, pc, uncolored, current_r, bestFeasibleS,
                    best_k_found, best_obj_found, result, total_iterations >>

\* a pass of the loop whose state is also main's bestFeasibleS (a reference instead of a copy)
TabuApply_aliases_best(m, d) ==
    /\ currentS' = apply_chosen(m)
    /\ bestFeasibleS' = currentS'
    /\ tabu_matrix' = write_tabu(m, tenure_of(d))
    /\ IF currentS'.obj < best_obj_found
       THEN best_obj_found' = currentS'.obj /\ no_improve_iter' = 0
       ELSE best_obj_found' = best_obj_found /\ no_improve_iter' = no_improve_iter + 1
    /\ iter' = iter + 1
    /\ last' = [kind |-> IF m.type = 0 THEN "transfer" ELSE "swap",
                v |-> m.v, target |-> m.target, delta |-> m.delta, tenure |-> tenure_of(d)]
    /\ UNCHANGED << input, config, time_up, inst, pc, uncolored, current_r,
                    best_k_found, result, total_iterations >>

\* a pass of the loop that applies the candidate m with the tenure draw d
TabuApply(m, d) ==
    /\ currentS' = apply_chosen(m)
    /\ tabu_matrix' = write_tabu(m, tenure_of(d))
    /\ IF currentS'.obj < best_obj_found
       THEN best_obj_found' = currentS'.obj /\ no_improve_iter' = 0
       ELSE best_obj_found' = best_obj_found /\ no_improve_iter' = no_improve_iter + 1
    /\ iter' = iter + 1
    /\ last' = [kind |-> IF m.type = 0 THEN "transfer" ELSE "swap",
                v |-> m.v, target |-> m.target, delta |-> m.delta, tenure |-> tenure_of(d)]
    /\ UNCHANGED << input, config, time_up, inst, pc, uncolored, current_r, bestFeasibleS,
                    best_k_found, result, total_iterations >>

\* a pass of the loop whose chosen candidate is a transfer
TabuTransfer ==
    /\ pc = "search"
    /\ LoopCondition
    /\ ~StopPolled
    /\ ~PerturbationDue
    /\ \E m \in candidates : \E d \in 0..config.beta : m.type = 0 /\ TabuApply(m, d)

\* a pass of the loop whose chosen candidate is a swap
TabuSwap ==
    /\ pc = "search"
    /\ LoopCondition
    /\ ~StopPolled
    /\ ~PerturbationDue
    /\ \E m \in candidates : \E d \in 0..config.beta : m.type = 1 /\ TabuApply(m, d)

\* a pass of the loop that finds no candidate and goes on to the next pass
TabuStuck_goes_on ==
    /\ pc = "search"
    /\ LoopCondition
    /\ ~StopPolled
    /\ ~PerturbationDue
    /\ candidates = {}
    /\ iter' = iter + 1
    /\ no_improve_iter' = no_improve_iter + 1
    /\ last' = [kind |-> "stuck"]
    /\ UNCHANGED << input, config, time_up, inst, pc, currentS, uncolored, current_r,
                    bestFeasibleS, best_k_found, tabu_matrix, best_obj_found, result,
                    total_iterations >>

\* a pass of the loop that finds no candidate: break, and the result is filled
TabuStuck ==
    /\ pc = "search"
    /\ LoopCondition
    /\ ~StopPolled
    /\ ~PerturbationDue
    /\ candidates = {}
    /\ result' = final_result
    /\ last' = [kind |-> "stuck"]
    /\ pc' = "returned"
    /\ UNCHANGED << input, config, time_up, inst, currentS, uncolored, current_r, bestFeasibleS,
                    best_k_found, tabu_matrix, iter, no_improve_iter, best_obj_found,
                    total_iterations >>

\* main is done with result, and the locals of run_tabu_search are out of scope
EngineLocalsGone ==
    /\ result' = NoResult
    /\ iter' = 0
    /\ no_improve_iter' = 0
    /\ best_obj_found' = 0

\* result.solved and best_k_found == 1: the descent ends
DescentSolvedLast ==
    /\ pc = "returned"
    /\ result.solved
    /\ currentS.k = 1
    /\ total_iterations' = total_iterations + result.iterations
    /\ bestFeasibleS' = currentS
    /\ best_k_found' = currentS.k
    /\ pc' = "done"
    /\ EngineLocalsGone
    /\ UNCHANGED << input, config, time_up, inst, currentS, uncolored, current_r, tabu_matrix,
                    last >>

\* result.solved: the state is saved, nextS(inst, next_k) is created and
\* construct_greedy_from_previous runs up to its insertion loop
DescentSolvedNext ==
    /\ pc = "returned"
    /\ result.solved
    /\ currentS.k # 1
    /\ total_iterations' = total_iterations + result.iterations
    /\ bestFeasibleS' = currentS
    /\ best_k_found' = currentS.k
    /\ \E perm \in Perms(currentS.k) :
         /\ currentS' = from_previous_start(init(inst, currentS.k - 1), currentS, perm)
         /\ uncolored' = {v \in V : currentS.color[v] = perm[currentS.k]}
    /\ current_r' = recount_r(currentS')
    /\ tabu_matrix' = <<>>
    /\ pc' = "greedy_previous"
    /\ EngineLocalsGone
    /\ UNCHANGED << input, config, time_up, inst, last >>

\* one pass of the insertion loop of construct_greedy_from_previous
GreedyPreviousInsert ==
    /\ pc = "greedy_previous"
    /\ \E v \in uncolored :
         \E c \in chosen_colors(currentS, v, current_r, 0) :
            /\ currentS' = assign_color(currentS, v, c)
            /\ current_r' = bump_r(currentS', c, current_r)
            /\ uncolored' = uncolored \ {v}
    /\ UNCHANGED << input, config, time_up, inst, pc, bestFeasibleS, best_k_found, tabu_matrix,
                    iter, no_improve_iter, best_obj_found, result, last, total_iterations >>

\* construct_greedy_from_previous returns; currentS = nextS
FinishGreedyPrevious ==
    /\ pc = "greedy_previous"
    /\ uncolored = {}
    /\ pc' = "loop"
    /\ UNCHANGED << input, config, time_up, inst, currentS, uncolored, current_r, bestFeasibleS,
                    best_k_found, tabu_matrix, iter, no_improve_iter, best_obj_found, result,
                    last, total_iterations >>

\* !result.solved: the descent goes on with the same state instead of ending
DescentFailed_retries ==
    /\ pc = "returned"
    /\ ~result.solved
    /\ total_iterations' = total_iterations + result.iterations
    /\ pc' = "loop"
    /\ EngineLocalsGone
    /\ UNCHANGED << input, config, time_up, inst, currentS, uncolored, current_r, bestFeasibleS,
                    best_k_found, tabu_matrix, last >>

\* !result.solved: the descent ends
DescentFailed ==
    /\ pc = "returned"
    /\ ~result.solved
    /\ total_iterations' = total_iterations + result.iterations
    /\ pc' = "done"
    /\ EngineLocalsGone
    /\ UNCHANGED << input, config, time_up, inst, currentS, uncolored, current_r, bestFeasibleS,
                    best_k_found, tabu_matrix, last >>

Next ==
    \/ ClockExpires
    \/ ReadInstance
    \/ StartGreedyInitial
    \/ GreedyInitialInsert
    \/ FinishGreedyInitial
    \/ DescentTimeUp
    \/ TabuEntrySolved
    \/ TabuEntry
    \/ TabuLoopExit
    \/ TabuTimeout
    \/ TabuPerturb
    \/ TabuTransfer
    \/ TabuSwap
    \/ TabuStuck
    \/ DescentSolvedLast
    \/ DescentSolvedNext
    \/ GreedyPreviousInsert
    \/ FinishGreedyPrevious
    \/ DescentFailed

Spec == Init /\ [][Next]_vars

(***************************************************************************)
(* construct_greedy_initial alone, on a SolutionManager built for any      *)
(* number of classes K in 1..MaxK.                                         *)
(***************************************************************************)
InitAnyK == InitWith(ConfigsAnyK)

NextGreedy ==
    \/ ReadInstance
    \/ StartGreedyInitial
    \/ GreedyInitialInsert
    \/ FinishGreedyInitial

SpecGreedy == InitAnyK /\ [][NextGreedy]_vars

\* main with the initial state built for an explicit number of classes: the descent of
\* main started from construct_greedy_initial at any k >= 1
SpecAnyK == InitAnyK /\ [][Next]_vars

(***************************************************************************)
(* apply_move and apply_swap_safe called on any state: after a             *)
(* construction for any K, any vertex is moved to any other class and any  *)
(* two vertices of different classes are swapped, up to MaxMoves times.     *)
(***************************************************************************)
\* apply_move(v, c) for any v and any c other than the color of v; iter counts the calls
MoveAny ==
    /\ pc = "loop"
    /\ iter < MaxMoves
    /\ \E v \in V : \E c \in 0..(currentS.k - 1) :
          /\ c # currentS.color[v]
          /\ currentS' = apply_move(currentS, v, c)
    /\ iter' = iter + 1
    /\ last' = [kind |-> "move"]
    /\ UNCHANGED << input, config, time_up, inst, pc, uncolored, current_r, bestFeasibleS,
                    best_k_found, tabu_matrix, no_improve_iter, best_obj_found, result,
                    total_iterations >>

\* apply_swap_safe(v, u) for any v, u of different colors; iter counts the calls
SwapAny ==
    /\ pc = "loop"
    /\ iter < MaxMoves
    /\ \E v \in V : \E u \in V :
          /\ currentS.color[v] # currentS.color[u]
          /\ currentS' = apply_swap_safe(currentS, v, u)
    /\ iter' = iter + 1
    /\ last' = [kind |-> "swap_any"]
    /\ UNCHANGED << input, config, time_up, inst, pc, uncolored, current_r, bestFeasibleS,
                    best_k_found, tabu_matrix, no_improve_iter, best_obj_found, result,
                    total_iterations >>

NextMoves ==
    \/ ReadInstance
    \/ StartGreedyInitial
    \/ GreedyInitialInsert
    \/ FinishGreedyInitial
    \/ MoveAny
    \/ SwapAny

\* the inputs the calls are made on: the named graphs, a graph with a repeated line
\* and a graph with a self-loop
MovesInputs ==
    NamedInputs \cup { [n |-> 2, lines |-> << Line(1, 2), Line(1, 2) >>],
                       [n |-> 2, lines |-> << Line(1, 1), Line(1, 2) >>] }

InitMoves == InitAnyK /\ input \in MovesInputs

SpecMoves == InitMoves /\ [][NextMoves]_vars

(***************************************************************************)
(* run_tabu_search alone, called once on a state built for K classes, with  *)
(* a perturbation limit the run never reaches.                             *)
(***************************************************************************)
\* a vertex adjacent to the four others with one edge 2 - 3 among those, and the triangle
TabuInputs ==
    { [n |-> 5, lines |-> << Line(1, 2), Line(1, 3), Line(1, 4), Line(1, 5), Line(2, 3) >>],
      [n |-> 3, lines |-> << Line(1, 2), Line(1, 3), Line(2, 3) >>] }

ConfigsTabu ==
    [max_iter : {MaxIter}, beta : {TabuBeta}, perturbation_limit : {MaxIter},
     aspiration : {0, 1}, K : {2, 3}]

\* three classes on the five vertices, two on the triangle
InitTabu ==
    /\ InitFrom(TabuInputs, ConfigsTabu)
    /\ config.K = IF input.n = 3 THEN 2 ELSE 3

NextTabu ==
    \/ ReadInstance
    \/ StartGreedyInitial
    \/ GreedyInitialInsert
    \/ FinishGreedyInitial
    \/ TabuEntrySolved
    \/ TabuEntry
    \/ TabuTransfer
    \/ TabuSwap
    \/ TabuStuck
    \/ TabuLoopExit

SpecTabu == InitTabu /\ [][NextTabu]_vars

(***************************************************************************)
(* main on the complete graphs K2, K3 and K4.                              *)
(***************************************************************************)
CompleteInputs ==
    { [n |-> 2, lines |-> << Line(1, 2) >>],
      [n |-> 3, lines |-> << Line(1, 2), Line(1, 3), Line(2, 3) >>],
      [n |-> 4, lines |-> << Line(1, 2), Line(1, 3), Line(1, 4),
                             Line(2, 3), Line(2, 4), Line(3, 4) >>] }

\* --beta 0: the tenure is floor(alpha * |C(s)|)
ConfigsComplete ==
    [max_iter : {CompleteMaxIter}, beta : {0}, perturbation_limit : {0, PerturbationLimit},
     aspiration : {0, 1}, K : {-1}]

InitComplete == InitFrom(CompleteInputs, ConfigsComplete)

\* the steps of main; no call of run_tabu_search returns solved with k = 1 on these
\* inputs, so the branch "best_k_found == 1" is not among them
NextComplete ==
    \/ ClockExpires
    \/ ReadInstance
    \/ StartGreedyInitial
    \/ GreedyInitialInsert
    \/ FinishGreedyInitial
    \/ DescentTimeUp
    \/ TabuEntrySolved
    \/ TabuEntry
    \/ TabuLoopExit
    \/ TabuTimeout
    \/ TabuPerturb
    \/ TabuTransfer
    \/ TabuSwap
    \/ TabuStuck
    \/ DescentSolvedNext
    \/ GreedyPreviousInsert
    \/ FinishGreedyPrevious
    \/ DescentFailed

SpecComplete == InitComplete /\ [][NextComplete]_vars

(***************************************************************************)
(* run_tabu_search alone on the triangle with two classes, where obj never *)
(* reaches 0, for PollMaxIter iterations; the wall clock may pass the time *)
(* limit before any iteration of the run.                                  *)
(***************************************************************************)
PollInputs == { [n |-> 3, lines |-> << Line(1, 2), Line(1, 3), Line(2, 3) >>] }

ConfigsPoll ==
    [max_iter : {PollMaxIter}, beta : {0}, perturbation_limit : {PerturbationLimit},
     aspiration : {0, 1}, K : {2}]

InitPoll == InitFrom(PollInputs, ConfigsPoll)

\* the wall clock passes the time limit while run_tabu_search is in its loop; the next
\* pass of the loop starts with is_time_up() answering true, whether it asks or not
ClockExpiresInSearch ==
    /\ ~time_up
    /\ pc = "search"
    /\ time_up' = TRUE
    /\ UNCHANGED << input, config, inst, pc, currentS, uncolored, current_r, bestFeasibleS,
                    best_k_found, tabu_matrix, iter, no_improve_iter, best_obj_found,
                    result, last, total_iterations >>

NextPoll ==
    \/ ReadInstance
    \/ StartGreedyInitial
    \/ GreedyInitialInsert
    \/ FinishGreedyInitial
    \/ TabuEntry
    \/ ClockExpiresInSearch
    \/ TabuTimeout
    \/ TabuPerturb
    \/ TabuTransfer
    \/ TabuSwap
    \/ TabuLoopExit

SpecPoll == InitPoll /\ [][NextPoll]_vars

(***************************************************************************)
(* Vocabulary of the properties.                                           *)
(***************************************************************************)
\* the state of currentS can be observed: no construction is under way
Observable == pc \in {"loop", "search", "returned", "done"}

\* a construction has run to the end of its insertion loop
GreedyInitialComplete == pc = "greedy_initial" /\ uncolored = {}
GreedyPreviousComplete == pc = "greedy_previous" /\ uncolored = {}

\* the input is a simple graph: no line names one vertex twice, no line repeats another
SimpleInput ==
    /\ \A t \in 1..Len(input.lines) : input.lines[t][1] # input.lines[t][2]
    /\ \A t, t2 \in 1..Len(input.lines) : input.lines[t] = input.lines[t2] => t = t2

\* no line of the input names one vertex twice
LoopFreeInput == \A t \in 1..Len(input.lines) : input.lines[t][1] # input.lines[t][2]

\* the number of vertices of color c
ClassCount(S, c) == Cardinality({v \in V : S.color[v] = c})

\* the number of edges whose two endpoints have the same color
SameColorEdges(S) ==
    Cardinality({t \in 1..Len(inst.edges) : S.color[inst.edges[t][1]] = S.color[inst.edges[t][2]]})

\* the number of neighbors of v (entries of adj[v]) that have the color of v
SameColorNeighbors(S, v) ==
    Cardinality({i \in 1..Len(inst.adj[v]) : S.color[inst.adj[v][i]] = S.color[v]})

\* every vertex has a color in [0, k)
FullyColored(S) == \A v \in V : S.color[v] \in 0..(S.k - 1)

\* the coloring is equitable: the classes have floor(n/k) or floor(n/k)+1 vertices,
\* and exactly n - k*floor(n/k) of them have floor(n/k)+1
EquitableColoring(S) ==
    LET f == inst.n \div S.k
    IN  /\ \A c \in 0..(S.k - 1) : ClassCount(S, c) \in {f, f + 1}
        /\ Cardinality({c \in 0..(S.k - 1) : ClassCount(S, c) = f + 1}) = inst.n - S.k * f

\* the same read from the bookkeeping: classSize, floor_size, big_size and r
EquitableSizes(S) ==
    /\ \A c \in 0..(S.k - 1) : S.classSize[c] \in {S.floor_size, S.big_size}
    /\ Cardinality({c \in 0..(S.k - 1) : S.classSize[c] = S.big_size}) = max_r(S)

\* the list holds exactly the vertices with conflicts > 0, once each, and
\* conflictingIndex is its inverse
ConflictListExact(S) ==
    /\ \A v \in V : (S.conflicts[v] > 0) <=>
                       (\E i \in 1..Len(S.conflictingVertices) : S.conflictingVertices[i] = v)
    /\ \A i, j \in 1..Len(S.conflictingVertices) :
           S.conflictingVertices[i] = S.conflictingVertices[j] => i = j
    /\ \A v \in V :
           IF \E i \in 1..Len(S.conflictingVertices) : S.conflictingVertices[i] = v
           THEN /\ S.conflictingIndex[v] \in 0..(Len(S.conflictingVertices) - 1)
                /\ S.conflictingVertices[S.conflictingIndex[v] + 1] = v
           ELSE S.conflictingIndex[v] = -1

(***************************************************************************)
(* C1 .. C10                                                               *)
(***************************************************************************)

\* C1: whenever run_tabu_search returns solved = true, the state it leaves is a proper
\* equitable k-coloring: obj = 0, no edge has two endpoints of one color, every class
\* has floor_size or big_size vertices and exactly r classes have big_size
C1_SolvedIsProperEquitable ==
    (pc = "returned" /\ result.solved) =>
        /\ currentS.obj = 0
        /\ SameColorEdges(currentS) = 0
        /\ FullyColored(currentS)
        /\ EquitableColoring(currentS)
        /\ EquitableSizes(currentS)

\* C1 witness: the engine returns solved after it applied a transfer to a state with conflicts
C1_Witness ==
    /\ pc = "returned"
    /\ result.solved
    /\ result.iterations > 0
    /\ max_r(currentS) > 0
    /\ Len(inst.edges) > 0

\* C2: when the descent ends, for any stop reason, the coloring stored as best_feasible
\* for the reported best_k has obj = 0 and every class size in {floor(n/best_k),
\* ceil(n/best_k)}.  Stated for the inputs that are simple graphs.
C2_BestFeasibleIsFeasible ==
    (pc = "done" /\ SimpleInput) =>
        /\ bestFeasibleS.k = best_k_found
        /\ bestFeasibleS.obj = 0
        /\ SameColorEdges(bestFeasibleS) = 0
        /\ EquitableColoring(bestFeasibleS)

\* C3: whenever run_tabu_search returns with obj = 0, its result is solved = true,
\* however the loop brought obj to 0.  Stated for the inputs that are simple graphs.
C3_ZeroObjectiveIsSolved ==
    (pc = "returned" /\ SimpleInput /\ currentS.obj = 0) => result.solved

\* C4: in every observable state the incrementally kept obj is the number of edges
\* whose endpoints have one color, which is the value of recompute_objective_slow()
C4_ObjectiveIsExact ==
    Observable =>
        /\ currentS.obj = SameColorEdges(currentS)
        /\ currentS.obj = recompute_objective_slow(currentS)

\* C5: in every observable state conflicts[v] is the number of neighbors of v that
\* have the color of v, for every vertex v
C5_ConflictsAreExact ==
    Observable => \A v \in V : currentS.conflicts[v] = SameColorNeighbors(currentS, v)

\* C6: in every observable state conflicting_vertices holds exactly the vertices with
\* conflicts[v] > 0, each once, and conflicting_index is its inverse
C6_ConflictListIsExact ==
    Observable => ConflictListExact(currentS)

\* C7: after a construction completes and after every apply_move and apply_swap_safe,
\* every vertex has a color in [0, k) and class_size[c] is the number of vertices of
\* color c; the last conjunct is the state after any single apply_move of the
\* search, which is also the state between the two moves of a swap
C7_ColorsAndClassSizes ==
    (Observable \/ GreedyInitialComplete \/ GreedyPreviousComplete) =>
        /\ FullyColored(currentS)
        /\ \A c \in 0..(currentS.k - 1) : currentS.classSize[c] = ClassCount(currentS, c)
        /\ pc = "search" =>
              \A v \in V : \A c \in 0..(currentS.k - 1) :
                  LET S1 == apply_move(currentS, v, c)
                  IN  /\ FullyColored(S1)
                      /\ \A d \in 0..(S1.k - 1) : S1.classSize[d] = ClassCount(S1, d)

\* C7 witness: a transfer has just been applied
C7_Witness == pc = "search" /\ last.kind = "transfer"

\* C8: after construct_greedy_initial, for every graph, every k >= 1, every vertex
\* order and random choice, max class_size - min class_size is 0 or 1 and the number
\* of classes of size big_size is r = n - k*floor(n/k)
C8_GreedyInitialIsEquitable ==
    GreedyInitialComplete =>
        /\ \A c, d \in 0..(currentS.k - 1) : currentS.classSize[c] - currentS.classSize[d] \in {-1, 0, 1}
        /\ Cardinality({c \in 0..(currentS.k - 1) : currentS.classSize[c] = currentS.big_size})
              = inst.n - currentS.k * (inst.n \div currentS.k)
        /\ \A c \in 0..(currentS.k - 1) : currentS.classSize[c] = ClassCount(currentS, c)

\* C8 witness: a construction is complete that had to place a vertex beside a neighbor,
\* with k not dividing n
C8_Witness ==
    /\ GreedyInitialComplete
    /\ currentS.obj > 0
    /\ inst.n % currentS.k # 0
    /\ currentS.k > 1

\* C9: construct_greedy_from_previous applied to an equitable feasible state with
\* k_prev classes leaves k = k_prev - 1 classes and an equitable state for k
C9_WarmStartIsEquitable ==
    GreedyPreviousComplete =>
        /\ currentS.k = bestFeasibleS.k - 1
        /\ FullyColored(currentS)
        /\ EquitableColoring(currentS)
        /\ EquitableSizes(currentS)

\* C9 witness: a warm start is complete that re-inserted a vertex beside a neighbor
C9_Witness ==
    /\ GreedyPreviousComplete
    /\ bestFeasibleS.obj = 0
    /\ EquitableColoring(bestFeasibleS)
    /\ currentS.obj > 0

\* C10: at the end of every iteration of run_tabu_search (after a selected transfer,
\* a selected swap or a perturbation step) every class_size[c] is floor_size or
\* big_size and exactly r classes have big_size
C10_IterationKeepsEquity ==
    (pc = "search" /\ last.kind \in {"transfer", "swap", "perturb"}) =>
        /\ EquitableSizes(currentS)
        /\ EquitableColoring(currentS)

\* C10 witness: a perturbation step has ended in a run that applied a move before it
C10_Witness ==
    /\ pc = "search"
    /\ last.kind = "perturb"
    /\ iter > 1
    /\ currentS.k > 1

(***************************************************************************)
(* C11 .. C20                                                              *)
(***************************************************************************)
\* the bookkeeping of S agrees with its coloring
Consistent(S) ==
    /\ FullyColored(S)
    /\ S.obj = SameColorEdges(S)
    /\ \A v \in V : S.conflicts[v] = SameColorNeighbors(S, v)
    /\ \A c \in 0..(S.k - 1) : S.classSize[c] = ClassCount(S, c)
    /\ ConflictListExact(S)

\* the elements of the conflict list of S
ListSet(S) == {S.conflictingVertices[i] : i \in 1..Len(S.conflictingVertices)}

\* T is S up to the positions of the vertices in conflictingVertices
SameUpToListOrder(S, T) ==
    /\ T.k = S.k /\ T.floor_size = S.floor_size /\ T.big_size = S.big_size
    /\ T.color = S.color
    /\ T.classSize = S.classSize
    /\ T.conflicts = S.conflicts
    /\ T.obj = S.obj
    /\ ListSet(T) = ListSet(S)
    /\ Len(T.conflictingVertices) = Len(S.conflictingVertices)
    /\ ConflictListExact(T)

\* apply_move(v, c_new) followed by apply_move(v, c_old)
MoveAndBack(S, v, c_new) == apply_move(apply_move(S, v, c_new), v, S.color[v])

\* apply_swap_safe(v, u) twice
SwapTwice(S, v, u) == apply_swap_safe(apply_swap_safe(S, v, u), v, u)

\* C11: for every consistent fully colored state on a simple graph, every vertex v of
\* color c_old and every color c_new # c_old, obj after apply_move(v, c_new) is obj
\* before plus get_move_delta(v, c_old, c_new)
C11_MoveDeltaIsExact ==
    (pc = "loop" /\ SimpleInput /\ Consistent(currentS)) =>
        \A v \in V : \A c_new \in 0..(currentS.k - 1) \ {currentS.color[v]} :
            apply_move(currentS, v, c_new).obj
                = currentS.obj + get_move_delta(currentS, v, currentS.color[v], c_new)

\* C11 witness: a move has been applied, and some move of the state it left would
\* raise obj while another would lower it
C11_Witness ==
    /\ pc = "loop" /\ SimpleInput /\ Consistent(currentS)
    /\ last.kind = "move"
    /\ \E v \in V : \E c \in 0..(currentS.k - 1) :
          c # currentS.color[v] /\ get_move_delta(currentS, v, currentS.color[v], c) > 0
    /\ \E v \in V : \E c \in 0..(currentS.k - 1) :
          c # currentS.color[v] /\ get_move_delta(currentS, v, currentS.color[v], c) < 0

\* C12: for every consistent fully colored state on a simple graph and every pair v, u
\* of different colors, adjacent or not, obj after apply_swap_safe(v, u) is obj before
\* plus get_swap_delta(v, u)
C12_SwapDeltaIsExact ==
    (pc = "loop" /\ SimpleInput /\ Consistent(currentS)) =>
        \A v \in V : \A u \in V :
            currentS.color[v] # currentS.color[u] =>
                apply_swap_safe(currentS, v, u).obj = currentS.obj + get_swap_delta(currentS, v, u)

\* C12 witness: a swap has been applied, and the state it left has a pair of adjacent
\* vertices of different colors whose swap changes obj
C12_Witness ==
    /\ pc = "loop" /\ SimpleInput /\ Consistent(currentS)
    /\ last.kind = "swap_any"
    /\ \E v \in V : \E i \in 1..Len(inst.adj[v]) :
          /\ currentS.color[v] # currentS.color[inst.adj[v][i]]
          /\ get_swap_delta(currentS, v, inst.adj[v][i]) # 0

\* C13 as stated: apply_move(v, c_new) followed by apply_move(v, c_old) restores the
\* state bit-for-bit, the positions in conflicting_vertices included
C13_MoveBackBitForBit ==
    (pc = "loop" /\ SimpleInput /\ Consistent(currentS)) =>
        \A v \in V : \A c_new \in 0..(currentS.k - 1) \ {currentS.color[v]} :
            MoveAndBack(currentS, v, c_new) = currentS

\* C13: on a consistent state, apply_move(v, c_new) followed by apply_move(v, c_old)
\* restores color, class_size, conflicts and obj; conflicting_vertices holds the same
\* vertices, possibly at other positions, and conflicting_index is its inverse
C13_MoveBackUpToListOrder ==
    (pc = "loop" /\ Consistent(currentS)) =>
        \A v \in V : \A c_new \in 0..(currentS.k - 1) \ {currentS.color[v]} :
            SameUpToListOrder(currentS, MoveAndBack(currentS, v, c_new))

\* C13 witness: a consistent state reached by a move, from which moving a vertex away
\* and back leaves the list in another order
C13_Witness ==
    /\ pc = "loop" /\ Consistent(currentS)
    /\ last.kind = "move"
    /\ \E v \in V : \E c_new \in 0..(currentS.k - 1) \ {currentS.color[v]} :
          MoveAndBack(currentS, v, c_new).conflictingVertices # currentS.conflictingVertices

\* C14 as stated: the swap of v and u applied twice is the identity on the state, the
\* conflicting_vertices list included
C14_SwapTwiceIsIdentity ==
    (pc = "loop" /\ SimpleInput /\ Consistent(currentS)) =>
        \A v \in V : \A u \in V :
            currentS.color[v] # currentS.color[u] => SwapTwice(currentS, v, u) = currentS

\* C14: on a consistent state, the swap of v and u applied twice restores color,
\* class_size, conflicts and obj; conflicting_vertices holds the same vertices, possibly
\* at other positions, and conflicting_index is its inverse
C14_SwapTwiceUpToListOrder ==
    (pc = "loop" /\ Consistent(currentS)) =>
        \A v \in V : \A u \in V :
            currentS.color[v] # currentS.color[u] =>
                SameUpToListOrder(currentS, SwapTwice(currentS, v, u))

\* C14 witness: a consistent state reached by a swap, from which swapping two vertices
\* twice leaves the list in another order
C14_Witness ==
    /\ pc = "loop" /\ Consistent(currentS)
    /\ last.kind = "swap_any"
    /\ \E v \in V : \E u \in V :
          /\ currentS.color[v] # currentS.color[u]
          /\ SwapTwice(currentS, v, u).conflictingVertices # currentS.conflictingVertices

\* an iteration of the search is about to evaluate its neighborhood
InIteration == pc = "search" /\ LoopCondition /\ ~StopPolled /\ ~PerturbationDue

\* the candidates the enumeration of this iteration evaluates
Evaluated == TransfersEvaluated \cup SwapsEvaluated

\* the largest tabu entry the filter reads for the candidate m
TabuEntryOf(m) ==
    IF m.type = 0 THEN tabu_matrix[m.v][m.target]
    ELSE LET a == tabu_matrix[m.v][currentS.color[m.target]]
             b == tabu_matrix[m.target][currentS.color[m.v]]
         IN  IF a >= b THEN a ELSE b

\* the candidate m would improve on the best objective of this run
Aspirates(m) == currentS.obj + m.delta < best_obj_found

\* C15: a move applied at iteration iter that writes tabu_until[v][c] = iter + T keeps
\* the move v -> c rejected, unless it aspirates, at each of the iterations
\* iter+1 .. iter+T, and no longer at iter+T+1: a candidate that does not aspirate is
\* rejected while the current iteration is at most its written entry and admitted
\* once the iteration is past it
C15_TabuLastsTenureIterations ==
    (InIteration /\ SimpleInput) =>
        \A m \in Evaluated :
            ~Aspirates(m) =>
                /\ (TabuEntryOf(m) > 0 /\ iter <= TabuEntryOf(m)) => m \notin Admitted
                /\ iter > TabuEntryOf(m) => m \in Admitted

\* C16: with aspiration = 0 in the configuration, no candidate whose tabu entry exceeds
\* the current iteration is admitted to the pool (and so none is applied), for
\* transfers (tabu_until[v][j] > iter) and for swaps (tabu_until[v][c_u] > iter or
\* tabu_until[u][c_v] > iter) alike
C16_NoTabuMoveWithoutAspiration ==
    (InIteration /\ config.aspiration = 0) =>
        \A m \in Admitted : TabuEntryOf(m) <= iter

\* C17: within one iteration the swap candidates evaluated contain each unordered pair
\* {v, u} at most once: the outer loop visits each conflicting vertex once, and a pair
\* evaluated with v as the conflicting vertex is not evaluated with the roles exchanged
C17_SwapPairsEvaluatedOnce ==
    InIteration =>
        /\ \A i, j \in 1..Len(currentS.conflictingVertices) :
              currentS.conflictingVertices[i] = currentS.conflictingVertices[j] => i = j
        /\ \A m1, m2 \in SwapsEvaluated : ~(m1.v = m2.target /\ m1.target = m2.v)

\* C17 witness: an iteration in which two conflicting vertices of different colors are
\* evaluated as a swap, the case the rule on c_u < c_v is about
C17_Witness ==
    /\ InIteration
    /\ \E m \in SwapsEvaluated : currentS.conflicts[m.v] > 0 /\ currentS.conflicts[m.target] > 0

\* C18: in a run of run_tabu_search with n mod k = 0 no transfer is evaluated, admitted
\* or applied; every applied move is a swap and the class sizes never change
C18_NoTransferWhenKDividesN ==
    (pc \in {"search", "returned"} /\ inst.n % currentS.k = 0) =>
        /\ TransfersEvaluated = {}
        /\ \A m \in Admitted : m.type = 1
        /\ last.kind # "transfer"
        /\ \A c \in 0..(currentS.k - 1) : currentS.classSize[c] = inst.n \div currentS.k

\* C18 witness: a swap has been applied in a run with n mod k = 0
C18_Witness ==
    /\ pc = "search"
    /\ inst.n % currentS.k = 0
    /\ last.kind = "swap"
    /\ iter > 0

\* main calls run_tabu_search in this step
EngineInvoked == pc = "loop" /\ pc' \in {"search", "returned"}

\* the call of run_tabu_search has returned without solving
FailedReturn == pc = "returned" /\ ~result.solved

\* C19: the k values handed to run_tabu_search start at max_degree + 1 and go down by
\* exactly one from one invocation to the next: k changes only after a solved return,
\* by -1, it never goes up, and after a non-solved return nothing is attempted again
C19_KDescendsByOne ==
    [][ /\ EngineInvoked =>
              currentS.k = IF last.kind = "none" THEN inst.max_degree + 1 ELSE best_k_found - 1
        /\ (pc = "returned" /\ result.solved /\ pc' # "done") =>
              /\ currentS'.k = currentS.k - 1
              /\ best_k_found' = currentS.k
        /\ (pc \in {"loop", "search", "greedy_previous", "done"} \/ FailedReturn) =>
              currentS'.k = currentS.k
        /\ pc' = "loop" => pc \in {"loop", "greedy_initial", "greedy_previous"}
        /\ FailedReturn => pc' = "done"
        /\ pc = "done" => pc' = "done"
      ]_vars

\* C19 witness: the third invocation, with k = max_degree - 1, has returned without solving
C19_Witness ==
    /\ FailedReturn
    /\ iter > 0
    /\ currentS.k = inst.max_degree - 1

\* C20: after a non-solved return run_tabu_search is not invoked again, and the search
\* that failed leaves bestFeasibleS and best_k_found as the last solved invocation
\* recorded them: they are written at a solved return only, with the returned state
C20_FailedSearchKeepsBest ==
    [][ /\ FailedReturn => ~ENABLED EngineInvoked
        /\ (FailedReturn \/ pc \in {"search", "done"} \/ EngineInvoked) =>
              /\ bestFeasibleS' = bestFeasibleS
              /\ best_k_found' = best_k_found
        /\ FailedReturn => (pc' = "done" /\ currentS' = currentS)
        /\ (pc = "returned" /\ result.solved) =>
              /\ bestFeasibleS' = currentS
              /\ best_k_found' = currentS.k
      ]_vars

\* C20 witness: the program ends before the time limit on a failed search at a k below
\* the recorded one, and what it reports is the state recorded for k + 1
C20_Witness ==
    /\ pc = "done"
    /\ ~time_up
    /\ currentS.k < best_k_found
    /\ currentS.obj > 0
    /\ bestFeasibleS.k = best_k_found
    /\ bestFeasibleS # currentS

(***************************************************************************)
(* C21 .. C30                                                              *)
(***************************************************************************)

\* the input is a complete graph on n >= 2 vertices: every pair a < b on one line
CompleteInput ==
    /\ input.n >= 2
    /\ SimpleInput
    /\ \A a, b \in 1..input.n :
           a < b => \E t \in 1..Len(input.lines) : input.lines[t] = Line(a, b)

\* C21: on a complete graph K_n (n >= 2) the descent starts at k = n, no call of
\* run_tabu_search with k < n returns solved, and best_k_found is n from the initial
\* construction to the end of the program, whatever the draws and the stop reason
C21_CompleteGraphKeepsN ==
    CompleteInput =>
        /\ (pc = "greedy_initial" \/ (pc = "loop" /\ last.kind = "none")) => currentS.k = inst.n
        /\ (pc = "returned" /\ result.solved) => currentS.k = inst.n
        /\ pc \in {"loop", "search", "returned", "greedy_previous", "done"} =>
              /\ best_k_found = inst.n
              /\ bestFeasibleS.k = inst.n

\* C21 witness: on K4 the program ends, before the time limit, on a search with k = 3
\* that made iterations and failed
C21_Witness ==
    /\ CompleteInput
    /\ inst.n = 4
    /\ pc = "done"
    /\ ~time_up
    /\ currentS.k = 3
    /\ last.kind \in {"exit", "stuck"}
    /\ best_k_found = 4

\* the input is a graph with no edges on n >= 1 vertices
EdgelessInput == input.n >= 1 /\ Len(input.lines) = 0

\* C22: on a graph with no edges the state is built for k = 1 and no state is ever built
\* for another k, construct_greedy_initial leaves obj = 0, run_tabu_search returns solved
\* without entering its loop, and the descent ends with best_k_found = 1
C22_EdgelessGraphEndsAtOne ==
    EdgelessInput =>
        /\ pc \notin {"read", "construct"} => currentS.k = 1
        /\ Observable => (currentS.obj = 0 /\ FullyColored(currentS))
        /\ pc \notin {"search", "greedy_previous"}
        /\ pc = "returned" =>
              /\ result = [solved |-> TRUE, iterations |-> 0, final_obj |-> 0]
              /\ last.kind = "entry_solved"
        /\ pc \in {"loop", "returned", "done"} =>
              /\ best_k_found = 1
              /\ bestFeasibleS.k = 1
              /\ total_iterations = 0

\* C22 witness: on three vertices without edges the program has ended after the one call
\* of run_tabu_search returned solved
C22_Witness ==
    /\ EdgelessInput
    /\ inst.n = 3
    /\ pc = "done"
    /\ last.kind = "entry_solved"
    /\ best_k_found = 1

\* C23: run_tabu_search asks the stop criterion exactly at the passes whose iter is a
\* multiple of 128, the pass with iter = 0 included.  If the time is up at such a pass the
\* call returns with solved = false and the state as it was; a return on the stop
\* criterion happens at no other pass; and once the time is up no pass with iter a
\* multiple of 128 is executed, so the passes executed after the expiry have consecutive
\* indices none of which is a multiple of 128: at most 127 of them
C23_ClockPolledEvery128 ==
    [][ /\ (pc = "search" /\ LoopCondition /\ time_up /\ iter % PollPeriod = 0) =>
              /\ pc' = "returned"
              /\ last'.kind = "timeout"
              /\ ~result'.solved
              /\ currentS' = currentS
              /\ tabu_matrix' = tabu_matrix
              /\ iter' = iter
        /\ (pc = "search" /\ time_up /\ iter' # iter) => iter % PollPeriod # 0
        /\ (pc = "search" /\ time_up /\ currentS' # currentS) => iter % PollPeriod # 0
        /\ (pc = "search" /\ last'.kind = "timeout" /\ pc' = "returned") =>
              (time_up /\ iter % PollPeriod = 0)
      ]_vars

\* C23 witness: the time ran out after the poll of pass 0, the passes up to 127 were
\* executed, and the call has returned on the stop criterion at the poll of pass 128
C23_Witness ==
    /\ pc = "returned"
    /\ last.kind = "timeout"
    /\ iter = PollPeriod
    /\ ~result.solved

\* what one round of the descent (a construction, a call of run_tabu_search, its return)
\* can take at most: the insertions, the call, max_iter passes, the return
RoundSize == config.max_iter + input.n + 5

\* the steps the current round can still take
StepsLeftInRound ==
    CASE pc \in {"greedy_initial", "greedy_previous"} -> config.max_iter + 4 + Cardinality(uncolored)
      [] pc = "loop"     -> config.max_iter + 3
      [] pc = "search"   -> config.max_iter - iter + 2
      [] pc = "returned" -> 1
      [] OTHER           -> 0

\* the rounds still to come: one for each k from the current one down to 1
RoundsLeft ==
    CASE pc = "read"      -> 2 * Len(input.lines) + 3
      [] pc = "construct" -> 2 * Len(input.lines) + 2
      [] pc = "done"      -> 0
      [] OTHER            -> currentS.k

\* a bound on the number of steps main can still take; the clock expires at most once
StepsLeft == 2 * (RoundsLeft * RoundSize + StepsLeftInRound) + (IF time_up THEN 0 ELSE 1)

\* C24: every run terminates.  A pass of the loop of run_tabu_search returns or adds one
\* to iter, perturbation passes included, and iter never passes max_iter; the calls of
\* run_tabu_search have k in 1..k0, one call for each k; and every step of main lowers
\* StepsLeft, which is never negative, whatever the draws and whether or not the time
\* limit expires
C24_EveryRunTerminates ==
    [][ /\ StepsLeft' < StepsLeft
        /\ StepsLeft' >= 0
        /\ pc = "search" =>
              /\ iter <= config.max_iter
              /\ \/ pc' = "returned"
                 \/ (pc' = "search" /\ iter' = iter + 1 /\ iter < config.max_iter)
                 \/ (pc' = "search" /\ iter' = iter /\ ~time_up /\ time_up')
        /\ EngineInvoked => currentS.k \in 1..(inst.max_degree + 1)
      ]_vars

\* C24 witness: the time limit never expired, the last call of run_tabu_search, at a k
\* below the first one and with a positive perturbation limit, used up its max_iter
\* passes without reaching obj = 0, and the program has ended
C24_Witness ==
    /\ pc = "done"
    /\ ~time_up
    /\ last.kind = "exit"
    /\ currentS.obj > 0
    /\ currentS.k < inst.max_degree + 1
    /\ total_iterations >= config.max_iter
    /\ config.perturbation_limit > 0

\* C25: when the pool of an iteration is empty (no transfer or swap is evaluated, or none
\* passes the tabu / aspiration filter) run_tabu_search ends with solved = false, and the
\* state, the table and the counters are as they were when the iteration started
C25_EmptyPoolEndsSearch ==
    [][ (InIteration /\ candidates = {} /\ time_up' = time_up) =>
            /\ pc' = "returned"
            /\ last'.kind = "stuck"
            /\ ~result'.solved
            /\ result'.iterations = iter
            /\ currentS' = currentS
            /\ tabu_matrix' = tabu_matrix
            /\ iter' = iter
            /\ best_obj_found' = best_obj_found
      ]_vars

\* C25 witness: run_tabu_search has returned from an iteration, not the first, where
\* candidates were evaluated and every one of them was tabu and not aspirating
C25_Witness ==
    /\ pc = "returned"
    /\ last.kind = "stuck"
    /\ iter > 0
    /\ currentS.obj > 0
    /\ Evaluated # {}
    /\ candidates = {}
    /\ ~result.solved

\* C26: an input with a line that names one vertex twice is rejected when it is loaded:
\* no Instance is built from it, and the program never gets past the loading
C26_SelfLoopIsRejected ==
    ~LoopFreeInput => (pc = "read" /\ inst = EmptyInstance)

\* the vertices that appear in adj[a]
NeighborSet(a) == {inst.adj[a][i] : i \in 1..Len(inst.adj[a])}

\* the unordered pairs of distinct vertices that are adjacent and have one color in S
SameColorPairs(S) ==
    {p \in V \X V : p[1] < p[2] /\ p[2] \in NeighborSet(p[1]) /\ S.color[p[1]] = S.color[p[2]]}

\* C27: after loading, the Instance is deduplicated: on an input without self-loops, b
\* appears at most once in adj[a], degree[a] is the number of neighbors of a, max_degree
\* is the largest of them, and in an observable state every pair of adjacent vertices of
\* one color counts 1 in obj and 1 in the conflicts of each endpoint, however many lines
\* of the input name the pair
C27_InstanceIsDeduplicated ==
    (LoopFreeInput /\ pc # "read") =>
        /\ \A a \in V :
              /\ \A i, j \in 1..Len(inst.adj[a]) : inst.adj[a][i] = inst.adj[a][j] => i = j
              /\ inst.degree[a] = Cardinality(NeighborSet(a))
              /\ inst.max_degree >= inst.degree[a]
        /\ (V # {} => \E a \in V : inst.max_degree = Cardinality(NeighborSet(a)))
        /\ Observable =>
              /\ currentS.obj = Cardinality(SameColorPairs(currentS))
              /\ \A v \in V :
                    currentS.conflicts[v] =
                        Cardinality({u \in NeighborSet(v) : currentS.color[u] = currentS.color[v]})

\* the candidates in the pool st.pool
PoolOf(st) == {st.pool[i] : i \in 1..Len(st.pool)}

\* the pool and the best delta are those of the set A of admitted candidates: the pool
\* holds the candidates of A with the least delta of A, and no other
PoolIsBestOf(st, A) ==
    LET pool == PoolOf(st)
    IN  /\ pool \subseteq A
        /\ A # {} =>
              LET least == MinOf({m.delta : m \in A})
              IN  /\ pool # {}
                  /\ st.best_delta = least
                  /\ \A m \in pool : m.delta = least
                  /\ \A m \in A : m.delta = least => m \in pool

\* C28: in every iteration that is not a perturbation, the pool built by the scan of the
\* transfers and then the swaps holds exactly the admitted candidates, of either kind,
\* whose delta is the least delta of the admitted candidates; it is the set the applied
\* move is drawn from, so the applied move has that least delta
C28_PoolHoldsAllBestCandidates ==
    InIteration =>
        LET st == scanned
        IN  /\ {evaluation_order[i] : i \in 1..Len(evaluation_order)} = Evaluated
            /\ PoolOf(st) = candidates
            /\ PoolIsBestOf(st, Admitted)
            /\ \A m \in candidates :
                   apply_chosen(m).obj = currentS.obj + st.best_delta

\* C28 witness: an iteration in which a transfer and a swap are both in the pool and an
\* admitted candidate with a larger delta is not
C28_Witness ==
    /\ InIteration
    /\ LET pool == PoolOf(scanned)
       IN  /\ \E m \in pool : m.type = 0
           /\ \E m \in pool : m.type = 1
           /\ \E m \in Admitted : m \notin pool

\* the candidate m is tabu at this iteration: a transfer v -> j when tabu_until[v][j] > iter,
\* a swap v <-> u when tabu_until[v][c_u] > iter or tabu_until[u][c_v] > iter
IsTabu(m) ==
    IF m.type = 0 THEN tabu_matrix[m.v][m.target] > iter
    ELSE \/ tabu_matrix[m.v][currentS.color[m.target]] > iter
         \/ tabu_matrix[m.target][currentS.color[m.v]] > iter

\* C29: with aspiration enabled, an evaluated candidate passes the filter iff it is not
\* tabu or obj + delta < best_obj_in_run, a swap being tabu iff tabu_until[v][c_u] > iter
\* or tabu_until[u][c_v] > iter; the move applied is drawn from the candidates that
\* pass, so a tabu candidate with obj + delta >= best_obj_in_run is never applied
C29_AdmittedIffNotTabuOrAspirating ==
    (InIteration /\ config.aspiration # 0) =>
        LET allowed == {m \in Evaluated : ~IsTabu(m) \/ Aspirates(m)}
        IN  /\ Admitted = allowed
            /\ \A m \in Evaluated : admitted(m) <=> m \in allowed
            /\ candidates \subseteq allowed
            /\ \A m \in allowed :
                   (\A x \in allowed : m.delta <= x.delta) => m \in candidates

\* an iteration with aspiration enabled in which a tabu swap is admitted because it
\* aspirates, and another tabu candidate is rejected because it does not
C29_Witness ==
    /\ InIteration
    /\ config.aspiration # 0
    /\ \E m \in Admitted : m.type = 1 /\ IsTabu(m) /\ Aspirates(m)
    /\ \E m \in Evaluated : IsTabu(m) /\ ~Aspirates(m) /\ m \notin Admitted

\* the vertices whose color the step changes
Recolored == {x \in V : currentS'.color[x] # currentS.color[x]}

\* floor(alpha * |C(s)|) with C(s) the conflicting set of the state the step starts in
TenureBase == (AlphaNum * Cardinality(ConflictingSet)) \div AlphaDen

\* C30: a move applied at iteration iter recolors one vertex (transfer) or two (swap), and
\* there is one T in [floor(alpha*|C(s)|), floor(alpha*|C(s)|) + beta], |C(s)| read
\* before the move, such that the entry of each recolored vertex for the color it left
\* becomes iter + T and every other entry of tabu_until keeps its value
C30_MoveWritesOnlyLeftColorEntries ==
    [][(InIteration /\ iter' = iter + 1) =>
          LET moved == Recolored
              lo    == TenureBase
          IN  /\ Cardinality(moved) \in {1, 2}
              /\ DOMAIN tabu_matrix' = DOMAIN tabu_matrix
              /\ \E T \in lo..(lo + config.beta) :
                     \A x \in DOMAIN tabu_matrix :
                        /\ DOMAIN tabu_matrix'[x] = DOMAIN tabu_matrix[x]
                        /\ \A c \in DOMAIN tabu_matrix[x] :
                               tabu_matrix'[x][c] =
                                   IF x \in moved /\ c = currentS.color[x]
                                   THEN iter + T
                                   ELSE tabu_matrix[x][c]]_vars

\* the search has just applied a swap with a tenure above floor(alpha*|C(s)|): the two
\* entries of the colors left hold iter + T, and an entry written by an earlier move is
\* still in the table
C30_Witness ==
    /\ pc = "search"
    /\ last.kind = "swap"
    /\ iter >= 2
    /\ last.tenure >= 2
    /\ tabu_matrix[last.v][currentS.color[last.target]] = iter - 1 + last.tenure
    /\ tabu_matrix[last.target][currentS.color[last.v]] = iter - 1 + last.tenure
    /\ \E x \in V : \E c \in DOMAIN tabu_matrix[x] :
          /\ x \notin {last.v, last.target}
          /\ tabu_matrix[x][c] > 0

\* the step is a pass of the loop of run_tabu_search: the loop condition holds, the poll
\* does not return, and the step is the program's (not the clock passing the limit)
PassStarts == pc = "search" /\ LoopCondition /\ ~StopPolled /\ time_up' = time_up

\* the step is a pass of the loop that ran the perturbation branch
PerturbationStep == PassStarts /\ last'.kind = "perturb"

\* the step is a pass of the loop that applied a selected transfer or swap
MoveStep == PassStarts /\ last'.kind \in {"transfer", "swap"}

\* C31: a pass of the loop is a perturbation step iff no_improve >= perturbation_limit and
\* perturbation_strength > 0 when it starts; the perturbation step sets no_improve to 0,
\* sets every tabu entry to 0, adds exactly one to iter and does none of the bookkeeping
\* of a selected move (best_obj_in_run keeps its value); a pass that applies a move sets
\* no_improve to 0 when the new obj is strictly below best_obj_in_run and adds one to it
\* otherwise
C31_PerturbationAndNoImproveAccounting ==
    [][PassStarts =>
          LET due == no_improve_iter >= config.perturbation_limit /\ StrengthNum > 0
          IN  /\ PerturbationStep <=> due
              /\ PerturbationStep =>
                    /\ no_improve_iter' = 0
                    /\ iter' = iter + 1
                    /\ \A x \in DOMAIN tabu_matrix' :
                          \A c \in DOMAIN tabu_matrix'[x] : tabu_matrix'[x][c] = 0
                    /\ DOMAIN tabu_matrix' = V
                    /\ best_obj_found' = best_obj_found
                    /\ currentS'.classSize = currentS.classSize
              /\ MoveStep =>
                    /\ iter' = iter + 1
                    /\ no_improve_iter' = IF currentS'.obj < best_obj_found
                                          THEN 0 ELSE no_improve_iter + 1
              /\ ~due => MoveStep \/ (pc' = "returned" /\ iter' = iter)]_vars

\* a perturbation step has just run after a move that did not improve (the limit is
\* positive, so the first pass was not a perturbation): the counter is back at 0 and
\* the table is cleared although the move had written it
C31_Witness ==
    /\ pc = "search"
    /\ last.kind = "perturb"
    /\ iter >= 2
    /\ no_improve_iter = 0
    /\ config.perturbation_limit > 0
    /\ \A x \in V : \A c \in DOMAIN tabu_matrix[x] : tabu_matrix[x][c] = 0

RECURSIVE swapped_exactly(_, _)
\* the states reached from S by exactly q swaps, each of two vertices with distinct colors
swapped_exactly(S, q) ==
    IF q = 0 THEN {S}
    ELSE UNION { swapped_exactly(apply_swap_safe(S, p[1], p[2]), q - 1) :
                   p \in {x \in V \X V : S.color[x[1]] # S.color[x[2]]} }

\* floor(perturbation_strength * n)
StrengthFloor == (inst.n * StrengthNum) \div StrengthDen

\* C32: a perturbation step executes floor(perturbation_strength * n) swaps, each of two
\* vertices with distinct colors and each applied whatever its delta and tabu status:
\* the state after the step is one that exactly that many such swaps lead to
C32_PerturbationSwapsFloorOfStrengthN ==
    [][PerturbationStep => currentS' \in swapped_exactly(currentS, StrengthFloor)]_vars

\* the vertices of the color class rho of the previous state
PrevClass(rho) == {v \in V : bestFeasibleS.color[v] = rho}

\* construct_greedy_from_previous has just reached its insertion loop
WarmStartBegins == pc = "returned" /\ pc' = "greedy_previous"

\* C33: construct_greedy_from_previous uncolors exactly the vertices of one color class rho
\* of the previous state and re-inserts only those; every other vertex gets a color of
\* [0, k_prev - 1) such that two surviving vertices share a color before re-insertion iff
\* they shared one in the previous state, and keeps it while the others are re-inserted
C33_OneClassRemovedOthersRemapped ==
    [][/\ WarmStartBegins =>
            /\ bestFeasibleS' = currentS
            /\ currentS'.k = currentS.k - 1
            /\ \E rho \in 0..(currentS.k - 1) :
                  LET removed == {v \in V : currentS.color[v] = rho}
                  IN  /\ uncolored' = removed
                      /\ \A v \in removed : currentS'.color[v] = NoColor
                      /\ \A v \in V \ removed : currentS'.color[v] \in 0..(currentS.k - 2)
                      /\ \A v, w \in V \ removed :
                            (currentS'.color[v] = currentS'.color[w])
                               <=> (currentS.color[v] = currentS.color[w])
                      /\ \A c \in 0..(currentS.k - 2) :
                            currentS'.classSize[c]
                               = Cardinality({v \in V \ removed : currentS'.color[v] = c})
       /\ (pc = "greedy_previous" /\ pc' = "greedy_previous") =>
            /\ uncolored' \subseteq uncolored
            /\ \A v \in V \ uncolored : currentS'.color[v] = currentS.color[v]
            /\ \A v \in uncolored \ uncolored' : currentS'.color[v] \in 0..(currentS.k - 1)
            /\ \A v \in uncolored' : currentS'.color[v] = NoColor]_vars

\* the insertion loop is about to start with a non-empty removed class and survivors of
\* two classes, one of which has a new index
C33_Witness ==
    /\ pc = "greedy_previous"
    /\ \E rho \in 0..(bestFeasibleS.k - 1) :
          /\ uncolored = PrevClass(rho)
          /\ uncolored # {}
          /\ \E v, w \in V \ uncolored :
                /\ currentS.color[v] # currentS.color[w]
                /\ currentS.color[v] # bestFeasibleS.color[v]

\* the step is one pass of the insertion loop of a greedy construction
InsertionStep ==
    /\ pc \in {"greedy_initial", "greedy_previous"}
    /\ pc' = pc
    /\ uncolored' # uncolored

\* the vertex the insertion step colors
Inserted == CHOOSE v \in uncolored : v \notin uncolored'

\* the number of classes that hold floor(n/k) + 1 vertices or more
BigClasses(S) == Cardinality({c \in 0..(S.k - 1) : ClassCount(S, c) >= (inst.n \div S.k) + 1})

\* I = {c : class_size[c] <= M - 1}, with M = floor(n/k) + 1 while fewer than n mod k
\* classes are big and floor(n/k) otherwise, from the true class sizes
SizeCandidates(S) ==
    LET M == IF BigClasses(S) < inst.n % S.k THEN (inst.n \div S.k) + 1 ELSE inst.n \div S.k
    IN  {c \in 0..(S.k - 1) : ClassCount(S, c) <= M - 1}

\* the classes that hold an already-colored neighbor of v
NeighborClasses(S, v) == {S.color[u] : u \in NeighborSet(v)} \ {NoColor}

\* C34: in both greedy constructions the color given to a vertex v is the smallest-indexed
\* class of I = {c : class_size[c] <= M - 1} that holds no already-colored neighbor of v,
\* whenever there is one; hence the insertion of v adds a conflicting edge only if every
\* class of I holds a neighbor of v
C34_SmallestConflictFreeClassIsChosen ==
    [][InsertionStep =>
          LET v    == Inserted
              free == SizeCandidates(currentS) \ NeighborClasses(currentS, v)
          IN  /\ free # {} => currentS'.color[v] = MinOf(free)
              /\ currentS'.obj > currentS.obj => free = {}]_vars

\* the largest element of a non-empty set of integers
MaxOf(S) == CHOOSE x \in S : \A y \in S : y <= x

\* the number of line ends of the input file that name vertex v (0-based)
EndpointCount(v) ==
    Cardinality({t \in 1..Len(input.lines) : input.lines[t][1] = v + 1})
      + Cardinality({t \in 1..Len(input.lines) : input.lines[t][2] = v + 1})

\* the number of entries of adj[v] equal to u
AdjCount(v, u) == Cardinality({i \in 1..Len(inst.adj[v]) : inst.adj[v][i] = u})

\* C35: after build_adj, degree[v] = |adj[v]| for every vertex (the number of line ends
\* naming v), max_degree is the maximum of degree (0 without edges) and adjacency is
\* symmetric; the initial state is built with k0 = max_degree + 1 classes and the descent
\* starts there
C35_DescentStartsAtMaxDegreePlusOne ==
    pc # "read" =>
        /\ \A v \in V : inst.degree[v] = Len(inst.adj[v]) /\ inst.degree[v] = EndpointCount(v)
        /\ inst.max_degree = MaxOf({0} \cup {inst.degree[v] : v \in V})
        /\ \A u, v \in V : u \in NeighborSet(v) <=> v \in NeighborSet(u)
        /\ \A u, v \in V : u # v => AdjCount(v, u) = AdjCount(u, v)
        /\ pc = "greedy_initial" => currentS.k = inst.max_degree + 1
        /\ (pc = "loop" /\ last = NoStep) =>
              /\ currentS.k = inst.max_degree + 1
              /\ best_k_found = inst.max_degree + 1

\* the descent is about to start on a simple graph whose vertices do not all have the
\* same degree: k0 = 3 on four vertices
C35_Witness ==
    /\ pc = "loop"
    /\ last = NoStep
    /\ SimpleInput
    /\ inst.n = 4
    /\ inst.max_degree = 2
    /\ \E v \in V : inst.degree[v] = 1
    /\ currentS.k = 3

\* an insertion pass of a greedy construction is about to run
InsertionPending == pc \in {"greedy_initial", "greedy_previous"} /\ uncolored # {}

\* C36: in both greedy constructions (from scratch for any k >= 1, and from the equitable
\* state of k + 1 classes the search has solved), I = {c : class_size[c] <= M - 1} is
\* non-empty at every insertion step, so the empty-I fallback is never taken, and the
\* counter of big classes never exceeds r = n - k * floor(n / k)
C36_CandidateSetNeverEmpty ==
    pc \in {"greedy_initial", "greedy_previous"} =>
        /\ InsertionPending =>
              /\ candidate_I(currentS, current_r) # {}
              /\ SizeCandidates(currentS) # {}
              /\ \A v \in uncolored :
                    chosen_colors(currentS, v, current_r, NoColor)
                       \subseteq candidate_I(currentS, current_r)
        /\ current_r <= inst.n - currentS.k * (inst.n \div currentS.k)
        /\ current_r = BigClasses(currentS)

\* a vertex of a warm start is about to be inserted when some class is already full:
\* I is a proper, non-empty part of the classes
C36_Witness ==
    /\ pc = "greedy_previous"
    /\ uncolored # {}
    /\ candidate_I(currentS, current_r) # {}
    /\ candidate_I(currentS, current_r) # 0..(currentS.k - 1)
    /\ currentS.k >= 2

\* the color classes of the previous state that can be the removed one in this state of
\* the warm start: the vertices still uncolored are in it, and the vertices outside it
\* are colored and share a color iff they did in the previous state
RemovedCandidates ==
    {rho \in 0..(bestFeasibleS.k - 1) :
        /\ uncolored \subseteq PrevClass(rho)
        /\ \A v \in V \ PrevClass(rho) : currentS.color[v] # NoColor
        /\ \A v, w \in V \ PrevClass(rho) :
              (currentS.color[v] = currentS.color[w])
                 <=> (bestFeasibleS.color[v] = bestFeasibleS.color[w])}

\* the edges of the list whose two ends are colored with the same color in S
ConflictingEdges(S) ==
    {t \in 1..Len(inst.edges) :
        /\ S.color[inst.edges[t][1]] # NoColor
        /\ S.color[inst.edges[t][1]] = S.color[inst.edges[t][2]]}

\* C37: while and after construct_greedy_from_previous runs from a feasible state
\* (obj = 0), every conflicting edge of the new state has an end in the removed color
\* class, so the vertices that kept their color are pairwise conflict-free, and obj is
\* at most the number of edges with an end in the removed class
C37_WarmStartConflictsTouchRemovedClass ==
    (pc = "greedy_previous" /\ bestFeasibleS.obj = 0) =>
        /\ RemovedCandidates # {}
        /\ \A rho \in RemovedCandidates :
              LET removed == PrevClass(rho)
              IN  /\ \A t \in ConflictingEdges(currentS) :
                        inst.edges[t][1] \in removed \/ inst.edges[t][2] \in removed
                  /\ \A v \in V \ removed : currentS.conflicts[v] > 0 =>
                        \E u \in removed : u \in NeighborSet(v) /\ currentS.color[u] = currentS.color[v]
                  /\ currentS.obj <= Cardinality({t \in 1..Len(inst.edges) :
                                         inst.edges[t][1] \in removed \/ inst.edges[t][2] \in removed})
                  /\ currentS.obj = Cardinality(ConflictingEdges(currentS))

\* a warm start from a feasible state is complete with two classes or more: the
\* re-insertion has made an edge conflicting and another edge has stayed proper
C37_Witness ==
    /\ pc = "greedy_previous"
    /\ uncolored = {}
    /\ bestFeasibleS.obj = 0
    /\ currentS.obj > 0
    /\ currentS.k >= 2
    /\ \E t \in 1..Len(inst.edges) : t \notin ConflictingEdges(currentS)

\* C38: at every iteration boundary of run_tabu_search best_obj_in_run is the least obj
\* of the states the run has visited (the entry state, the state after each applied move
\* and after each perturbation step), so best_obj_in_run <= obj holds there, and the
\* final_obj returned is that least value, hence at most the obj the run ends with
C38_BestObjIsLeastVisited ==
    /\ pc = "search" => best_obj_found <= currentS.obj
    /\ pc = "returned" => result.final_obj <= currentS.obj

\* C39: on every return path of run_tabu_search (solved, max_iter reached, empty pool,
\* stop criterion fired) result.iterations is the number of passes of the loop the run
\* has executed, which the counter iter holds when the call returns
C39_IterationsCountsPassesExecuted ==
    pc = "returned" => result.iterations = iter

====
